---- MODULE Spec2Model ----
(***************************************************************************)
(* A model of microcks-testcontainers-node: the Microcks container         *)
(* builder and its start-up imports, the HTTP client of the started        *)
(* container (imports, downloads, secrets, contract-test polling) and the  *)
(* containers ensemble.                                                    *)
(***************************************************************************)
EXTENDS Integers, Sequences, FiniteSets, TLC

VARIABLES
    builder,    \* MicrocksContainer: the lists its with* methods fill
    container,  \* the main Docker container: "created", "starting", "running", "failed"
    start,      \* MicrocksContainer.start(): where the async function stands
    op,         \* the import, download or secret call being awaited
    requests,   \* the requests start() has sent to the server, in order, with their answers
    inflight,   \* the number of import requests sent and not yet answered
    clock,      \* Date.now(), in milliseconds
    jobs,       \* the server's test jobs, by id: who submitted it, whether in progress
    calls,      \* one record per testEndpoint call (its locals and its position)
    ensemble,   \* MicrocksContainersEnsemble: its network and its three builders
    thrown,     \* the error the last ensemble builder call threw, "" if none
    attempts,   \* the broker connection calls made on the ensemble, with their outcome
    run,        \* the ensemble's start() and stop(): where each stands
    sidecars,   \* the state of the Postman and async minion Docker containers
    launched,   \* the configuration each member was started with
    startedEnsemble,  \* StartedMicrocksContainersEnsemble, once constructed
    mapping,    \* the host and the mapped ports of the started containers
    getter,     \* the getter called last on a started container, and what it returned
    networks,   \* the Docker networks of the test process: "started" or "stopped"
    stopCalls   \* the stop(options) call each member of the ensemble has received

containerVars == <<builder, container, start, op, requests, inflight>>

testVars == <<clock, jobs, calls>>

ensembleVars == <<ensemble, thrown, attempts, run, sidecars, launched, startedEnsemble>>

getterVars == <<mapping, getter>>

networkVars == <<networks, stopCalls>>

vars ==
    <<builder, container, start, op, requests, inflight, clock, jobs, calls,
      ensemble, thrown, attempts, run, sidecars, launched, startedEnsemble,
      mapping, getter, networks, stopCalls>>

----------------------------------------------------------------------------
(* Bounds of the model *)

\* the with* calls of one builder register at most this many items in all
MaxRegistered == 2
\* an ensemble accepts at most this many different broker connections
MaxConnections == 1
\* testRequest.timeout ranges over -2000 ms and 0 .. MaxTimeoutSteps * 250 ms
MaxTimeoutSteps == 1
\* an awaited response takes 0 .. MaxDelaySteps * 250 ms of wall-clock time
MaxDelaySteps == 1
\* the actions the test process takes between a call and its await
MaxActivations == 2

(* Program constants *)

\* await this.wait(250)
WAIT_MS == 250
\* Date.now() + testRequest.timeout + 1000
DEADLINE_MARGIN_MS == 1000
\* response.status != 201
HTTP_CREATED == 201
\* response.status == 200
HTTP_OK == 200
\* MicrocksContainer.MICROCKS_HTTP_PORT
MICROCKS_HTTP_PORT == 8080
\* MicrocksContainer.MICROCKS_GRPC_PORT
MICROCKS_GRPC_PORT == 9090
\* MicrocksAsyncMinionContainer.MICROCKS_ASYNC_MINION_HTTP_PORT
MICROCKS_ASYNC_MINION_HTTP_PORT == 8081
\* the statuses the server answers a POST with: created, or refused
ServerStatuses == {HTTP_CREATED, 500}

----------------------------------------------------------------------------
(* The file system and the inputs of the test process *)

Paths == {"a.yaml", "b.json", "missing", "dir"}

Urls == {"https://host/a.yaml", "https://host/b.yaml"}

Secrets == {"secret-a", "secret-b"}

\* what stat(path) finds
FileKind(path) ==
    CASE path = "missing" -> "absent"
      [] path = "dir" -> "dir"
      [] OTHER -> "file"

\* the arrays handed to a with* method
Arrays(S) == {<<x>> : x \in S} \cup {<<x, y>> : x \in S, y \in S}

----------------------------------------------------------------------------
(* MicrocksContainer: the builder *)

NewBuilder ==
    [snapshots |-> <<>>, mainArtifacts |-> <<>>, secondaryArtifacts |-> <<>>,
     mainRemoteArtifacts |-> <<>>, secondaryRemoteArtifacts |-> <<>>,
     secrets |-> <<>>]

Registered(b) ==
    Len(b.snapshots) + Len(b.mainArtifacts) + Len(b.secondaryArtifacts)
        + Len(b.mainRemoteArtifacts) + Len(b.secondaryRemoteArtifacts) + Len(b.secrets)

\* the builder is configured before start() and has room for these items
CanRegister(items) ==
    /\ start.pc = "idle"
    /\ Registered(builder) + Len(items) <= MaxRegistered

\* a with* method that replaces the list instead of extending it
ConcatReplacing(list, items) == items

\* this.<list> = this.<list>.concat(items)
Concat(list, items) == list \o items

WithMainArtifacts(artifacts) ==
    /\ CanRegister(artifacts)
    /\ builder' = [builder EXCEPT !.mainArtifacts = Concat(@, artifacts)]
    /\ UNCHANGED <<container, start, op, requests, inflight, testVars, getterVars, networkVars, ensembleVars>>

WithSecondaryArtifacts(artifacts) ==
    /\ CanRegister(artifacts)
    /\ builder' = [builder EXCEPT !.secondaryArtifacts = Concat(@, artifacts)]
    /\ UNCHANGED <<container, start, op, requests, inflight, testVars, getterVars, networkVars, ensembleVars>>

WithMainRemoteArtifacts(remoteArtifactUrls) ==
    /\ CanRegister(remoteArtifactUrls)
    /\ builder' = [builder EXCEPT !.mainRemoteArtifacts = Concat(@, remoteArtifactUrls)]
    /\ UNCHANGED <<container, start, op, requests, inflight, testVars, getterVars, networkVars, ensembleVars>>

WithSecondaryRemoteArtifacts(remoteArtifactUrls) ==
    /\ CanRegister(remoteArtifactUrls)
    /\ builder' = [builder EXCEPT !.secondaryRemoteArtifacts = Concat(@, remoteArtifactUrls)]
    /\ UNCHANGED <<container, start, op, requests, inflight, testVars, getterVars, networkVars, ensembleVars>>

WithSnapshots(snapshots) ==
    /\ CanRegister(snapshots)
    /\ builder' = [builder EXCEPT !.snapshots = Concat(@, snapshots)]
    /\ UNCHANGED <<container, start, op, requests, inflight, testVars, getterVars, networkVars, ensembleVars>>

\* this.secrets.push(secret)
WithSecret(secret) ==
    /\ CanRegister(<<secret>>)
    /\ builder' = [builder EXCEPT !.secrets = Append(@, secret)]
    /\ UNCHANGED <<container, start, op, requests, inflight, testVars, getterVars, networkVars, ensembleVars>>

----------------------------------------------------------------------------
(* StartedMicrocksContainer: imports, downloads and secrets *)

UploadCalls == {"importAsMainArtifact", "importAsSecondaryArtifact", "importSnapshot"}

NoRequest == [uri |-> "", payload |-> "", mainArtifact |-> "", status |-> 0]

NoOp ==
    [pc |-> "idle", kind |-> "", arg |-> "", by |-> "", sent |-> 0,
     request |-> NoRequest, error |-> ""]

\* an upload that puts the query flag on the main artifacts
ImportArtifactRequestFlaggingMain(artifactPath, mainArtifact) ==
    [uri |-> "/api/artifact/upload" \o (IF mainArtifact THEN "?mainArtifact=false" ELSE ""),
     payload |-> artifactPath, mainArtifact |-> "", status |-> 0]

\* importArtifact: the upload URI, with the query flag of a secondary artifact
ImportArtifactRequest(artifactPath, mainArtifact) ==
    [uri |-> "/api/artifact/upload" \o (IF mainArtifact THEN "" ELSE "?mainArtifact=false"),
     payload |-> artifactPath, mainArtifact |-> "", status |-> 0]

\* downloadArtifact: the form body {mainArtifact: String(mainArtifact), url}
DownloadArtifactRequest(remoteArtifactUrl, mainArtifact) ==
    [uri |-> "/api/artifact/download", payload |-> remoteArtifactUrl,
     mainArtifact |-> (IF mainArtifact THEN "true" ELSE "false"), status |-> 0]

\* importSnapshotInternal
ImportSnapshotRequest(snapshotPath) ==
    [uri |-> "/api/import", payload |-> snapshotPath, mainArtifact |-> "", status |-> 0]

\* createSecret
CreateSecretRequest(secret) ==
    [uri |-> "/api/secrets", payload |-> secret, mainArtifact |-> "", status |-> 0]

\* the request a call sends, by the public method called
RequestOf(kind, arg) ==
    CASE kind = "importAsMainArtifact" -> ImportArtifactRequest(arg, TRUE)
      [] kind = "importAsSecondaryArtifact" -> ImportArtifactRequest(arg, FALSE)
      [] kind = "downloadAsMainArtifact" -> DownloadArtifactRequest(arg, TRUE)
      [] kind = "downloadAsSecondaryArtifact" -> DownloadArtifactRequest(arg, FALSE)
      [] kind = "importSnapshot" -> ImportSnapshotRequest(arg)
      [] kind = "createSecret" -> CreateSecretRequest(arg)

\* the client side of the server: the awaited call, the requests of start()
\* and the number of requests awaiting their answer
Client == [op |-> op, requests |-> requests, inflight |-> inflight]

\* fetch(uri, {method: 'POST', ...}) by the call cl.op
Fetch(cl) ==
    LET req == RequestOf(cl.op.kind, cl.op.arg)
    IN [op |-> [cl.op EXCEPT !.pc = "fetch", !.sent = @ + 1, !.request = req],
        requests |-> IF cl.op.by = "start" THEN Append(cl.requests, req) ELSE cl.requests,
        inflight |-> cl.inflight + 1]

\* a public method is called: an upload awaits isFile(path) first, the others
\* go to their fetch at once
Invoke(cl, kind, arg, by) ==
    LET called == [cl EXCEPT !.op = [NoOp EXCEPT !.kind = kind, !.arg = arg, !.by = by]]
    IN IF kind \in UploadCalls
       THEN [called EXCEPT !.op.pc = "stat"]
       ELSE Fetch(called)

\* an upload that does not look at the path first
IsFileUnchecked(cl) == Fetch(cl)

\* const isFile = await this.isFile(path): stat(path) rejects for a missing
\* path; if (!isFile) throw; else uploadFileToMicrocks
IsFileChecked(cl) ==
    LET found == FileKind(cl.op.arg)
    IN IF found = "absent"
       THEN [cl EXCEPT !.op.pc = "rejected", !.op.error = "ENOENT"]
       ELSE IF found # "file"
       THEN [cl EXCEPT !.op.pc = "rejected", !.op.error = "does not exist or can't be read"]
       ELSE Fetch(cl)

\* a call that sends its request again when the answer is not 201
AnsweredRetrying(cl, status) ==
    IF status # HTTP_CREATED /\ cl.op.sent < 2
    THEN Fetch([cl EXCEPT !.inflight = @ - 1])
    ELSE [op |-> [cl.op EXCEPT !.pc = IF status # HTTP_CREATED THEN "rejected" ELSE "resolved",
                               !.request.status = status],
          requests |-> cl.requests,
          inflight |-> cl.inflight - 1]

\* if (response.status != 201) throw new Error(...)
Answered(cl, status) ==
    LET n == Len(cl.requests)
        logged == IF cl.op.by = "start"
                  THEN [cl.requests EXCEPT ![n].status = status]
                  ELSE cl.requests
    IN [op |-> IF status # HTTP_CREATED
               THEN [cl.op EXCEPT !.pc = "rejected", !.error = "not created",
                                  !.request.status = status]
               ELSE [cl.op EXCEPT !.pc = "resolved", !.request.status = status],
        requests |-> logged,
        inflight |-> cl.inflight - 1]

----------------------------------------------------------------------------
(* MicrocksAsyncMinionContainer: the builder *)

\* an optional field that holds no container
NoContainer == [defined |-> FALSE]

\* an optional property that is not given
UNDEFINED == "undefined"

\* an image name, cut in the pieces the code looks at
DefaultEnsembleImage == <<"quay.io/microcks/", "microcks-uber", ":1.8.1">>

\* withEnvironment(environment): the entries given replace the ones held
WithEnvironment(c, environment) ==
    [c EXCEPT !.env = environment @@ c.env]

\* new MicrocksContainer(image).withNetwork(network).withNetworkAliases("microcks")
\*     .withEnvironment({POSTMAN_RUNNER_URL, TEST_CALLBACK_URL, ASYNC_MINION_URL})
NewEnsembleMicrocksContainer(network, image) ==
    [defined |-> TRUE, image |-> image, network |-> network,
     aliases |-> <<"microcks">>,
     exposedPorts |-> <<MICROCKS_HTTP_PORT, MICROCKS_GRPC_PORT>>,
     waitFor |-> "Started MicrocksApplication",
     env |-> [POSTMAN_RUNNER_URL |-> "http://postman:3000",
              TEST_CALLBACK_URL |-> "http://microcks:8080",
              ASYNC_MINION_URL |-> "http://microcks-async-minion:"
                                      \o ToString(MICROCKS_ASYNC_MINION_HTTP_PORT)]]

\* new GenericContainer(image).withNetwork(network).withNetworkAliases("postman")
NewPostmanContainer(network, image) ==
    [defined |-> TRUE, image |-> image, network |-> network,
     aliases |-> <<"postman">>,
     exposedPorts |-> <<>>,
     waitFor |-> "postman-runtime wrapper listening on port",
     env |-> <<>>]

\* a constructor that names the gRPC port of the main container
NewAsyncMinionContainerGrpcPort(network, image) ==
    [defined |-> TRUE, image |-> image, network |-> network,
     aliases |-> <<"microcks-async-minion">>,
     exposedPorts |-> <<MICROCKS_ASYNC_MINION_HTTP_PORT>>,
     waitFor |-> "Profile prod activated.",
     env |-> [MICROCKS_HOST_PORT |-> "microcks:" \o ToString(MICROCKS_GRPC_PORT)],
     extraProtocols |-> <<>>]

\* new MicrocksAsyncMinionContainer(network, image)
NewAsyncMinionContainer(network, image) ==
    [defined |-> TRUE, image |-> image, network |-> network,
     aliases |-> <<"microcks-async-minion">>,
     exposedPorts |-> <<MICROCKS_ASYNC_MINION_HTTP_PORT>>,
     waitFor |-> "Profile prod activated.",
     env |-> [MICROCKS_HOST_PORT |-> "microcks:" \o ToString(MICROCKS_HTTP_PORT)],
     extraProtocols |-> <<>>]

\* this.extraProtocols.indexOf(',' + protocol), on the pieces ',' + protocol
\* the string is made of
RECURSIVE IndexOf(_, _)
IndexOf(pieces, piece) ==
    IF pieces = <<>> THEN 0 - 1
    ELSE IF Head(pieces) = piece THEN 0
    ELSE LET rest == IndexOf(Tail(pieces), piece)
         IN IF rest = 0 - 1 THEN rest ELSE rest + Len(Head(pieces))

\* the string the pieces make
RECURSIVE Joined(_)
Joined(pieces) ==
    IF pieces = <<>> THEN "" ELSE Head(pieces) \o Joined(Tail(pieces))

\* addProtocolIfNeeded(protocol)
AddProtocol(minion, protocol) ==
    [minion EXCEPT !.extraProtocols = Append(@, "," \o protocol)]

AddProtocolIfNeeded(minion, protocol) ==
    IF IndexOf(minion.extraProtocols, "," \o protocol) = 0 - 1
    THEN [minion EXCEPT !.extraProtocols = Append(@, "," \o protocol)]
    ELSE minion

\* MicrocksAsyncMinionContainer.withKafkaConnection
MinionWithKafkaConnection(minion, connection) ==
    LET m == AddProtocolIfNeeded(minion, "KAFKA")
    IN WithEnvironment(m, [ASYNC_PROTOCOLS |-> Joined(m.extraProtocols),
                           KAFKA_BOOTSTRAP_SERVER |-> connection.bootstrapServers])

\* MicrocksAsyncMinionContainer.withMQTTConnection
MinionWithMQTTConnection(minion, connection) ==
    LET m == AddProtocolIfNeeded(minion, "MQTT")
    IN WithEnvironment(m, [ASYNC_PROTOCOLS |-> Joined(m.extraProtocols),
                           MQTT_SERVER |-> connection.server,
                           MQTT_USERNAME |-> connection.username,
                           MQTT_PASSWORD |-> connection.password])

\* MicrocksAsyncMinionContainer.withAMQPConnection
MinionWithAMQPConnection(minion, connection) ==
    LET m == AddProtocolIfNeeded(minion, "AMQP")
    IN WithEnvironment(m, [ASYNC_PROTOCOLS |-> Joined(m.extraProtocols),
                           AMQP_SERVER |-> connection.server,
                           AMQP_USERNAME |-> connection.username,
                           AMQP_PASSWORD |-> connection.password])

\* MicrocksAsyncMinionContainer.withAmazonSQSConnection
MinionWithAmazonSQSConnection(minion, connection) ==
    LET m == AddProtocolIfNeeded(minion, "SQS")
        set == WithEnvironment(m, [ASYNC_PROTOCOLS |-> Joined(m.extraProtocols),
                                   AWS_SQS_REGION |-> connection.region,
                                   AWS_ACCESS_KEY_ID |-> connection.accessKey,
                                   AWS_SECRET_ACCESS_KEY |-> connection.secretKey])
    IN IF connection.endpointOverride # UNDEFINED
       THEN WithEnvironment(set, [AWS_SQS_ENDPOINT |-> connection.endpointOverride])
       ELSE set

\* MicrocksAsyncMinionContainer.withAmazonSNSConnection
MinionWithAmazonSNSConnection(minion, connection) ==
    LET m == AddProtocolIfNeeded(minion, "SNS")
        set == WithEnvironment(m, [ASYNC_PROTOCOLS |-> Joined(m.extraProtocols),
                                   AWS_SNS_REGION |-> connection.region,
                                   AWS_ACCESS_KEY_ID |-> connection.accessKey,
                                   AWS_SECRET_ACCESS_KEY |-> connection.secretKey])
    IN IF connection.endpointOverride # UNDEFINED
       THEN WithEnvironment(set, [AWS_SNS_ENDPOINT |-> connection.endpointOverride])
       ELSE set

\* the with*Connection method of the minion, by protocol
MinionWithConnection(minion, protocol, connection) ==
    CASE protocol = "KAFKA" -> MinionWithKafkaConnection(minion, connection)
      [] protocol = "MQTT" -> MinionWithMQTTConnection(minion, connection)
      [] protocol = "AMQP" -> MinionWithAMQPConnection(minion, connection)
      [] protocol = "SQS" -> MinionWithAmazonSQSConnection(minion, connection)
      [] protocol = "SNS" -> MinionWithAmazonSNSConnection(minion, connection)

----------------------------------------------------------------------------
(* MicrocksContainersEnsemble: the builder *)

KafkaConnections == {[bootstrapServers |-> "kafka:9092"]}

GenericConnections == {[server |-> "broker:1883", username |-> "user", password |-> "pass"]}

AmazonServiceConnections ==
    {[region |-> "eu-west-3", accessKey |-> "key-1", secretKey |-> "secret-1",
      endpointOverride |-> "http://localstack:4566"],
     [region |-> "us-east-1", accessKey |-> "key-2", secretKey |-> "secret-2",
      endpointOverride |-> UNDEFINED]}

\* the image argument of withAsyncFeature: none, or one given
AsyncImages == {<<>>, <<"quay.io/microcks/", "microcks-uber-async-minion", ":nightly">>}

\* private asyncMinionEnvironment: Record<string, string> = {}
NoEnvironment == <<>>

\* new MicrocksContainersEnsemble(network, image)
NewEnsemble(network, image) ==
    [network |-> network,
     microcksContainer |-> NewEnsembleMicrocksContainer(network, image),
     postmanContainer |-> NoContainer,
     asyncMinionContainer |-> NoContainer,
     asyncMinionEnvironment |-> NoEnvironment]

\* the ensemble is configured before its start()
CanConfigure == run.start = "idle"

\* withPostman(image = "quay.io/microcks/microcks-postman-runtime:latest")
WithPostman ==
    /\ CanConfigure
    /\ ensemble' = [ensemble EXCEPT !.postmanContainer =
           NewPostmanContainer(ensemble.network,
               <<"quay.io/microcks/", "microcks-postman-runtime", ":latest">>)]
    /\ thrown' = ""
    /\ UNCHANGED <<attempts, run, sidecars, launched, startedEnsemble,
                   containerVars, testVars, getterVars, networkVars>>

\* .replace("microcks-uber", "microcks-uber-async-minion"): the first occurrence
RECURSIVE Replace(_, _, _)
Replace(image, from, to) ==
    IF image = <<>> THEN <<>>
    ELSE IF Head(image) = from THEN <<to>> \o Tail(image)
    ELSE <<Head(image)>> \o Replace(Tail(image), from, to)

\* a derivation that leaves the image as it ends
AsyncMinionImageUncut(image, mainImage) ==
    IF image # <<>> THEN image
    ELSE Replace(mainImage, "microcks-uber", "microcks-uber-async-minion")

\* the image of the async minion: the one given, else the one derived from
\* the main image; a trailing "-native" is cut
AsyncMinionImage(image, mainImage) ==
    LET asyncMinionImage ==
            IF image # <<>> THEN image
            ELSE Replace(mainImage, "microcks-uber", "microcks-uber-async-minion")
    IN IF asyncMinionImage # <<>> /\ asyncMinionImage[Len(asyncMinionImage)] = "-native"
       THEN SubSeq(asyncMinionImage, 1, Len(asyncMinionImage) - 1)
       ELSE asyncMinionImage

\* withAsyncFeature(image?)
WithAsyncFeature(image) ==
    /\ CanConfigure
    /\ ensemble' = [ensemble EXCEPT !.asyncMinionContainer =
           NewAsyncMinionContainer(ensemble.network,
               AsyncMinionImage(image, ensemble.microcksContainer.image))]
    /\ thrown' = ""
    /\ UNCHANGED <<attempts, run, sidecars, launched, startedEnsemble,
                   containerVars, testVars, getterVars, networkVars>>

\* withDebugLogLevel() of the ensemble: the settings are kept for the async
\* minion; this.microcksContainer.withDebugLogLevel() acts on the main
\* container alone
WithDebugLogLevel ==
    /\ CanConfigure
    /\ ensemble' = [ensemble EXCEPT !.asyncMinionEnvironment =
           [QUARKUS_LOG_CONSOLE_LEVEL |-> "DEBUG",
            QUARKUS_LOG_CATEGORY__IO_GITHUB_MICROCKS__LEVEL |-> "DEBUG"]]
    /\ UNCHANGED <<thrown, attempts, run, sidecars, launched, startedEnsemble,
                   containerVars, testVars, getterVars, networkVars>>

\* a connection method that calls the minion without looking at it first
AsyncFeatureUnchecked(asyncMinionContainer) == FALSE

\* if (this.asyncMinionContainer == undefined) throw new Error(...)
AsyncFeatureMissing(asyncMinionContainer) == ~asyncMinionContainer.defined

\* the calls among the attempts, without their outcome
Tried == {[protocol |-> a.protocol, connection |-> a.connection] : a \in attempts}

\* with<Protocol>Connection(connection) of the ensemble: the check, then
\* this.asyncMinionContainer?.with<Protocol>Connection(connection)
WithConnection(protocol, connection) ==
    LET this == [protocol |-> protocol, connection |-> connection]
    IN /\ CanConfigure
       /\ this \in Tried \/ Cardinality(Tried) < MaxConnections
       /\ IF AsyncFeatureMissing(ensemble.asyncMinionContainer)
          THEN /\ thrown' = "Async feature must have been enabled first"
               /\ attempts' = attempts \cup {this @@ [threw |-> TRUE]}
               /\ UNCHANGED ensemble
          ELSE /\ thrown' = ""
               /\ attempts' = attempts \cup {this @@ [threw |-> FALSE]}
               /\ IF ensemble.asyncMinionContainer.defined
                  THEN ensemble' = [ensemble EXCEPT !.asyncMinionContainer =
                           MinionWithConnection(@, protocol, connection)]
                  ELSE UNCHANGED ensemble
       /\ UNCHANGED <<run, sidecars, launched, startedEnsemble, containerVars, testVars, getterVars, networkVars>>

\* asyncMinionContainer.with<Protocol>Connection(connection), called on the
\* minion itself before it is started
MinionConnects(protocol, connection) ==
    /\ CanConfigure
    /\ ensemble.asyncMinionContainer.defined
    /\ ensemble' = [ensemble EXCEPT !.asyncMinionContainer =
                       MinionWithConnection(@, protocol, connection)]
    /\ UNCHANGED <<thrown, attempts, run, sidecars, launched, startedEnsemble,
                   containerVars, testVars, getterVars, networkVars>>

WithKafkaConnection(connection) == WithConnection("KAFKA", connection)

WithMQTTConnection(connection) == WithConnection("MQTT", connection)

WithAMQPConnection(connection) == WithConnection("AMQP", connection)

WithAmazonSQSConnection(connection) == WithConnection("SQS", connection)

WithAmazonSNSConnection(connection) == WithConnection("SNS", connection)

----------------------------------------------------------------------------
(* MicrocksContainersEnsemble.start() and StartedMicrocksContainersEnsemble.stop() *)

\* the members, in the order start() and stop() take them
Members == <<"microcks", "postman", "asyncMinion">>

Sidecars == {"postman", "asyncMinion"}

BuilderOf(m) ==
    CASE m = "microcks" -> ensemble.microcksContainer
      [] m = "postman" -> ensemble.postmanContainer
      [] m = "asyncMinion" -> ensemble.asyncMinionContainer

NotRun == [start |-> "idle", stop |-> "idle", started |-> {}, options |-> UNDEFINED]

NoStartedEnsemble ==
    [defined |-> FALSE, startedMicrocksContainer |-> UNDEFINED,
     startedPostmanContainer |-> UNDEFINED, startedAsyncMinionContainer |-> UNDEFINED]

\* new StartedMicrocksContainersEnsemble(microcks, postman, asyncMinion)
NewStartedEnsemble(started) ==
    [defined |-> TRUE,
     startedMicrocksContainer |-> IF "microcks" \in started THEN "microcks" ELSE UNDEFINED,
     startedPostmanContainer |-> IF "postman" \in started THEN "postman" ELSE UNDEFINED,
     startedAsyncMinionContainer |->
         IF "asyncMinion" \in started THEN "asyncMinion" ELSE UNDEFINED]

\* the started container the ensemble holds for a member, or undefined
StartedOf(m) ==
    CASE m = "microcks" -> startedEnsemble.startedMicrocksContainer
      [] m = "postman" -> startedEnsemble.startedPostmanContainer
      [] m = "asyncMinion" -> startedEnsemble.startedAsyncMinionContainer

Position(m) == CHOOSE k \in 1..Len(Members) : Members[k] = m

\* a start() that passes over the member next in line
MemberAfterNext(m, present) ==
    LET later == {k \in Position(m) + 2..Len(Members) : Members[k] \in present}
    IN IF later = {} THEN "none"
       ELSE Members[CHOOSE k \in later : \A j \in later : k <= j]

\* this.postmanContainer?.start(), this.asyncMinionContainer?.start(), and the
\* if (this.started...) of stop(): the next member after m that is there
MemberAfter(m, present) ==
    LET later == {k \in Position(m) + 1..Len(Members) : Members[k] \in present}
    IN IF later = {} THEN "none"
       ELSE Members[CHOOSE k \in later : \A j \in later : k <= j]

\* start() of the ensemble goes on after member m has started, the sidecars
\* being in the states given: the next member there is starts, or the
\* StartedMicrocksContainersEnsemble is made
StartGoesOn(m, states) ==
    LET started == run.started \cup {m}
        next == MemberAfter(m, {s \in Sidecars : BuilderOf(s).defined})
    IN IF next = "none"
       THEN /\ run' = [run EXCEPT !.start = "resolved", !.started = started]
            /\ startedEnsemble' = NewStartedEnsemble(started)
            /\ sidecars' = states
            /\ UNCHANGED launched
       ELSE /\ run' = [run EXCEPT !.start = next, !.started = started]
            /\ sidecars' = [states EXCEPT ![next] = "starting"]
            /\ launched' = [launched EXCEPT ![next] = BuilderOf(next)]
            /\ UNCHANGED startedEnsemble

\* await this.microcksContainer.start() settles: the ensemble's start() goes
\* on with the Postman container, or rejects
EnsembleResumes ==
    IF run.start = "microcks" /\ start'.pc = "resolved"
    THEN StartGoesOn("microcks", sidecars) /\ UNCHANGED <<ensemble, thrown, attempts>>
    ELSE IF run.start = "microcks" /\ start'.pc = "rejected"
    THEN /\ run' = [run EXCEPT !.start = "rejected"]
         /\ UNCHANGED <<ensemble, thrown, attempts, sidecars, launched, startedEnsemble>>
    ELSE UNCHANGED ensembleVars

----------------------------------------------------------------------------
(* MicrocksContainer.start() *)

\* the loops of start(), in the order of the code: the list read, the method called
StartLists ==
    <<"snapshots", "mainRemoteArtifacts", "secondaryRemoteArtifacts",
      "mainArtifacts", "secondaryArtifacts", "secrets">>

StartCalls ==
    <<"importSnapshot", "downloadAsMainArtifact", "downloadAsSecondaryArtifact",
      "importAsMainArtifact", "importAsSecondaryArtifact", "createSecret">>

NotStarted == [pc |-> "idle", loop |-> 1, i |-> 1]

\* for (let i=0; i<this.<list>.length; i++): the next loop and index with an item
RECURSIVE NextItem(_, _)
NextItem(loop, i) ==
    IF loop > Len(StartLists) THEN [loop |-> loop, i |-> 1]
    ELSE IF i <= Len(builder[StartLists[loop]]) THEN [loop |-> loop, i |-> i]
    ELSE NextItem(loop + 1, 1)

\* start() runs on from position (loop, i): it calls the method of the next
\* item and awaits it, or returns startedContainer
RunStart(cl, loop, i) ==
    LET at == NextItem(loop, i)
    IN IF at.loop > Len(StartLists)
       THEN [client |-> [cl EXCEPT !.op = NoOp],
             start |-> [pc |-> "resolved", loop |-> at.loop, i |-> at.i]]
       ELSE [client |-> Invoke(cl, StartCalls[at.loop],
                               builder[StartLists[at.loop]][at.i], "start"),
             start |-> [pc |-> "loop", loop |-> at.loop, i |-> at.i]]

\* a start() that hands the started container back when an item has failed
SettledHandingBack(cl) ==
    IF cl.op.by # "start" THEN [client |-> cl, start |-> start]
    ELSE IF cl.op.pc = "rejected"
    THEN [client |-> cl, start |-> [start EXCEPT !.pc = "resolved"]]
    ELSE IF cl.op.pc = "resolved"
    THEN RunStart(cl, start.loop, start.i + 1)
    ELSE [client |-> cl, start |-> start]

\* a start() that goes to its next item whatever became of the last one
SettledGoingOn(cl) ==
    IF cl.op.by # "start" THEN [client |-> cl, start |-> start]
    ELSE IF cl.op.pc \in {"rejected", "resolved"}
    THEN RunStart(cl, start.loop, start.i + 1)
    ELSE [client |-> cl, start |-> start]

\* the awaited call of start() has settled: a rejection ends start(), a
\* success goes to the next iteration
Settled(cl) ==
    IF cl.op.by # "start" THEN [client |-> cl, start |-> start]
    ELSE IF cl.op.pc = "rejected"
    THEN [client |-> cl, start |-> [start EXCEPT !.pc = "rejected"]]
    ELSE IF cl.op.pc = "resolved"
    THEN RunStart(cl, start.loop, start.i + 1)
    ELSE [client |-> cl, start |-> start]

Becomes(next) ==
    /\ op' = next.client.op
    /\ requests' = next.client.requests
    /\ inflight' = next.client.inflight
    /\ start' = next.start

\* a start() that does not await super.start() before its imports
StartUnawaited ==
    /\ start.pc = "idle"
    /\ container = "created"
    /\ container' = "starting"
    /\ Becomes(RunStart(Client, 1, 1))
    /\ UNCHANGED <<builder, testVars, getterVars, networkVars>>

\* start(): await super.start()
Start ==
    /\ start.pc = "idle"
    /\ container = "created"
    /\ container' = "starting"
    /\ start' = [start EXCEPT !.pc = "super.start"]
    /\ UNCHANGED <<builder, op, requests, inflight, testVars, getterVars, networkVars>>

\* the container is up and its wait strategy is satisfied: start() goes on
ContainerReady ==
    /\ start.pc = "super.start"
    /\ container' = "running"
    /\ Becomes(RunStart(Client, 1, 1))
    /\ EnsembleResumes
    /\ UNCHANGED <<builder, testVars, getterVars, networkVars>>

\* super.start() rejects
ContainerFails ==
    /\ start.pc = "super.start"
    /\ container' = "failed"
    /\ start' = [start EXCEPT !.pc = "rejected"]
    /\ EnsembleResumes
    /\ UNCHANGED <<builder, op, requests, inflight, testVars, getterVars, networkVars>>

\* stat() has answered the upload being awaited
StatReturns ==
    /\ op.pc = "stat"
    /\ Becomes(Settled(IsFileChecked(Client)))
    /\ EnsembleResumes
    /\ UNCHANGED <<builder, container, testVars, getterVars, networkVars>>

\* the server answers the request being awaited
Responds(status) ==
    /\ op.pc = "fetch"
    /\ Becomes(Settled(Answered(Client, status)))
    /\ EnsembleResumes
    /\ UNCHANGED <<builder, container, testVars, getterVars, networkVars>>

\* the test process calls a method of the started container it was handed,
\* one awaited call at a time
CanCall ==
    /\ start.pc = "resolved"
    /\ op.pc \in {"idle", "resolved", "rejected"}
    /\ \A c \in DOMAIN calls : calls[c].pc \in {"idle", "returned", "rejected"}

DirectCall(kind, arg) ==
    /\ CanCall
    /\ Becomes([client |-> Invoke(Client, kind, arg, "test"), start |-> start])
    /\ UNCHANGED <<builder, container, testVars, getterVars, networkVars, ensembleVars>>

\* start() of the ensemble: await this.microcksContainer.start()
EnsembleStart ==
    /\ run.start = "idle"
    /\ Start
    /\ run' = [run EXCEPT !.start = "microcks"]
    /\ launched' = [launched EXCEPT !["microcks"] = ensemble.microcksContainer]
    /\ UNCHANGED <<ensemble, thrown, attempts, sidecars, startedEnsemble>>

\* a start() that leaves the async minion as withAsyncFeature made it
StartWithoutEnvironment ==
    /\ run.start = "idle"
    /\ Start
    /\ run' = [run EXCEPT !.start = "microcks"]
    /\ launched' = [launched EXCEPT !["microcks"] = ensemble.microcksContainer]
    /\ UNCHANGED <<ensemble, thrown, attempts, sidecars, startedEnsemble>>

\* start() of the ensemble that has withDebugLogLevel:
\* if (this.asyncMinionContainer)
\*     this.asyncMinionContainer.withEnvironment(this.asyncMinionEnvironment)
\* and then await this.microcksContainer.start()
StartWithEnvironment ==
    /\ run.start = "idle"
    /\ Start
    /\ run' = [run EXCEPT !.start = "microcks"]
    /\ launched' = [launched EXCEPT !["microcks"] = ensemble.microcksContainer]
    /\ ensemble' = [ensemble EXCEPT !.asyncMinionContainer =
           IF @.defined
           THEN WithEnvironment(@, ensemble.asyncMinionEnvironment)
           ELSE @]
    /\ UNCHANGED <<thrown, attempts, sidecars, startedEnsemble>>

\* the sidecar being awaited is up and its wait strategy is satisfied
SidecarReady(m) ==
    /\ run.start = m
    /\ sidecars[m] = "starting"
    /\ StartGoesOn(m, [sidecars EXCEPT ![m] = "running"])
    /\ UNCHANGED <<ensemble, thrown, attempts, containerVars, testVars, getterVars, networkVars>>

\* a start() that starts the next member when one has failed
SidecarFailsStartingNext(m) ==
    /\ run.start = m
    /\ sidecars[m] = "starting"
    /\ LET next == MemberAfter(m, {s \in Sidecars : BuilderOf(s).defined})
       IN IF next = "none"
          THEN /\ sidecars' = [sidecars EXCEPT ![m] = "failed"]
               /\ run' = [run EXCEPT !.start = "rejected"]
          ELSE /\ sidecars' = [sidecars EXCEPT ![m] = "failed", ![next] = "starting"]
               /\ run' = [run EXCEPT !.start = next]
    /\ UNCHANGED <<ensemble, thrown, attempts, launched, startedEnsemble,
                   containerVars, testVars, getterVars, networkVars>>

\* the start() of the sidecar being awaited rejects
SidecarFails(m) ==
    /\ run.start = m
    /\ sidecars[m] = "starting"
    /\ sidecars' = [sidecars EXCEPT ![m] = "failed"]
    /\ run' = [run EXCEPT !.start = "rejected"]
    /\ UNCHANGED <<ensemble, thrown, attempts, launched, startedEnsemble,
                   containerVars, testVars, getterVars, networkVars>>

\* the networks an ensemble is made on: await new Network().start()
Networks == {"network-1", "network-2"}

\* the options a test hands to stop(options?: Partial<StopOptions>)
StopOptions == {UNDEFINED, "{ timeout: 10000 }"}

NoStop == [called |-> FALSE, options |-> UNDEFINED]

\* stop(options): await this.startedMicrocksContainer.stop(options)
EnsembleStop ==
    /\ startedEnsemble.defined
    /\ run.stop = "idle"
    /\ \E options \in StopOptions :
          /\ run' = [run EXCEPT !.stop = "microcks", !.options = options]
          /\ stopCalls' = [stopCalls EXCEPT
                               !["microcks"] = [called |-> TRUE, options |-> options]]
    /\ UNCHANGED <<ensemble, thrown, attempts, sidecars, launched, startedEnsemble,
                   containerVars, testVars, getterVars, networks>>

\* a stop() that stops the network of the ensemble after its last member
MemberStoppedWithNetwork(m) ==
    /\ run.stop = m
    /\ IF m = "microcks"
       THEN container' = "stopped" /\ UNCHANGED sidecars
       ELSE sidecars' = [sidecars EXCEPT ![m] = "stopped"] /\ UNCHANGED container
    /\ LET next == MemberAfter(m, {s \in Sidecars : StartedOf(s) # UNDEFINED})
       IN IF next = "none"
          THEN /\ run' = [run EXCEPT !.stop = "resolved"]
               /\ networks' = [networks EXCEPT ![ensemble.network] = "stopped"]
               /\ UNCHANGED stopCalls
          ELSE /\ run' = [run EXCEPT !.stop = next]
               /\ stopCalls' = [stopCalls EXCEPT
                                    ![next] = [called |-> TRUE, options |-> run.options]]
               /\ UNCHANGED networks
    /\ UNCHANGED <<ensemble, thrown, attempts, launched, startedEnsemble,
                   builder, start, op, requests, inflight, testVars, getterVars>>

\* the member whose stop() is awaited has stopped: stop() goes on with the
\* next started member, or returns
MemberStopped(m) ==
    /\ run.stop = m
    /\ IF m = "microcks"
       THEN container' = "stopped" /\ UNCHANGED sidecars
       ELSE sidecars' = [sidecars EXCEPT ![m] = "stopped"] /\ UNCHANGED container
    /\ LET next == MemberAfter(m, {s \in Sidecars : StartedOf(s) # UNDEFINED})
       IN IF next = "none"
          THEN run' = [run EXCEPT !.stop = "resolved"] /\ UNCHANGED stopCalls
          ELSE /\ run' = [run EXCEPT !.stop = next]
               /\ stopCalls' = [stopCalls EXCEPT
                                    ![next] = [called |-> TRUE, options |-> run.options]]
    /\ UNCHANGED <<ensemble, thrown, attempts, launched, startedEnsemble,
                   builder, start, op, requests, inflight, testVars, getterVars,
                   networks>>

\* a stop() that goes to the next member when the stop of one has failed
MemberStopFailsGoingOn(m) ==
    /\ run.stop = m
    /\ LET next == MemberAfter(m, {s \in Sidecars : StartedOf(s) # UNDEFINED})
       IN IF next = "none"
          THEN run' = [run EXCEPT !.stop = "rejected"] /\ UNCHANGED stopCalls
          ELSE /\ run' = [run EXCEPT !.stop = next]
               /\ stopCalls' = [stopCalls EXCEPT
                                    ![next] = [called |-> TRUE, options |-> run.options]]
    /\ UNCHANGED <<ensemble, thrown, attempts, sidecars, launched, startedEnsemble,
                   containerVars, testVars, getterVars, networks>>

\* the stop() of the member being awaited rejects
MemberStopFails(m) ==
    /\ run.stop = m
    /\ run' = [run EXCEPT !.stop = "rejected"]
    /\ UNCHANGED <<ensemble, thrown, attempts, sidecars, launched, startedEnsemble,
                   containerVars, testVars, getterVars, networkVars>>

\* await network.stop(), by the test process, once the ensemble's stop() settled
NetworkStop ==
    /\ run.stop \in {"resolved", "rejected"}
    /\ networks[ensemble.network] = "started"
    /\ networks' = [networks EXCEPT ![ensemble.network] = "stopped"]
    /\ UNCHANGED <<stopCalls, containerVars, testVars, getterVars, ensembleVars>>

----------------------------------------------------------------------------
(* StartedMicrocksContainer.testEndpoint *)

\* the testEndpoint calls of the test process
Calls == {"t1", "t2"}

Timeouts == {0 - 2 * DEADLINE_MARGIN_MS} \cup {k * WAIT_MS : k \in 0..MaxTimeoutSteps}

Delays == {k * WAIT_MS : k \in 0..MaxDelaySteps}

NoResult == [id |-> 0, inProgress |-> FALSE]

Max(a, b) == IF a >= b THEN a ELSE b

\* what the caller has got from awaiting the promise of a call
NotAwaited == [done |-> FALSE, threw |-> FALSE, testResult |-> NoResult]

\* a call, and what its caller did since: activated holds, for each action the
\* caller took after the call, the length of the call's trace and its pc then
IdleCall ==
    [pc |-> "idle", timeout |-> 0, testResultId |-> 0, idAt |-> 0, endDate |-> 0,
     testResult |-> NoResult, waitUntil |-> 0, trace |-> <<>>, error |-> "",
     activated |-> <<>>, awaited |-> NotAwaited]

\* one more step of a call's trace: a request sent, with the job id it names,
\* or a wait begun, with its length; late tells whether the clock had reached
\* the deadline by then
Traced(call, step, n, now) ==
    Append(call.trace, [op |-> step, n |-> n, late |-> now >= call.endDate])

\* a testEndpoint that hands its promise back before the submission is sent
TestEndpointDeferred(c, timeout) ==
    /\ calls[c].pc = "idle"
    /\ start.pc = "resolved"
    /\ op.pc \in {"idle", "resolved", "rejected"}
    /\ calls' = [calls EXCEPT ![c].pc = "submitting", ![c].timeout = timeout]
    /\ UNCHANGED <<clock, jobs, containerVars, ensembleVars, getterVars, networkVars>>

\* const response = await fetch(getHttpEndpoint() + "/api/tests", {method: 'POST'}):
\* an async function runs up to its first await before the caller gets the promise
TestEndpoint(c, timeout) ==
    /\ calls[c].pc = "idle"
    /\ start.pc = "resolved"
    /\ op.pc \in {"idle", "resolved", "rejected"}
    /\ calls' = [calls EXCEPT ![c].pc = "submitting",
                              ![c].timeout = timeout,
                              ![c].trace = <<[op |-> "POST", n |-> 0, late |-> FALSE]>>]
    /\ UNCHANGED <<clock, jobs, containerVars, ensembleVars, getterVars, networkVars>>

\* a refreshTestResult that asks for the first job of the container
RefreshFirstTestResult(call, testResultId, now) ==
    [call EXCEPT !.pc = "fetching", !.trace = Traced(call, "GET", 1, now)]

\* refreshTestResult(testResultId): fetch(getHttpEndpoint() + "/api/tests/" + testResultId)
RefreshTestResult(call, testResultId, now) ==
    [call EXCEPT !.pc = "fetching", !.trace = Traced(call, "GET", testResultId, now)]

\* if (response.status == 201): the id is read, the deadline is computed and
\* the first refreshTestResult is awaited; else throw new Error("Couldn't launch ...")
Submitted(call, status, id, now) ==
    IF status = HTTP_CREATED
    THEN RefreshTestResult(
             [call EXCEPT !.testResultId = id, !.idAt = now,
                          !.endDate = now + call.timeout + DEADLINE_MARGIN_MS],
             id, now)
    ELSE [call EXCEPT !.pc = "rejected", !.error = "launch"]

\* the server answers the submission, with a new job on 201
SubmitResponse(c, status, d) ==
    /\ calls[c].pc = "submitting"
    /\ clock' = clock + d
    /\ jobs' = IF status = HTTP_CREATED
               THEN Append(jobs, [call |-> c, inProgress |-> TRUE])
               ELSE jobs
    /\ calls' = [calls EXCEPT ![c] = Submitted(@, status, Len(jobs) + 1, clock')]
    /\ UNCHANGED <<containerVars, ensembleVars, getterVars, networkVars>>

\* a loop condition that still iterates at the deadline itself
KeepPollingAtDeadline(testResult, now, endDate) ==
    testResult.inProgress /\ now <= endDate

\* while (testResult.inProgress && Date.now() < endDate)
KeepPolling(testResult, now, endDate) ==
    testResult.inProgress /\ now < endDate

\* a poller that notes the failed fetch and polls on
FetchFailedPollsOn(call) ==
    [call EXCEPT !.pc = "waiting", !.error = "fetch",
                 !.trace = Append(@, [op |-> "WAIT", n |-> WAIT_MS, late |-> FALSE])]

\* if (!response.ok) throw new Error('Error while fetching TestResult ...')
FetchFailed(call) ==
    [call EXCEPT !.pc = "rejected", !.error = "fetch"]

\* a poller that returns what it held before its last fetch
FetchedReturningEarlier(call, testResult, now) ==
    IF KeepPolling(testResult, now, call.endDate)
    THEN [call EXCEPT !.pc = "waiting", !.testResult = testResult,
                      !.waitUntil = now + WAIT_MS,
                      !.trace = Traced(call, "WAIT", WAIT_MS, now)]
    ELSE [call EXCEPT !.pc = "returned"]

\* a poller without a deadline, which sleeps until it is told of the job's end
FetchedAwaitingTheEnd(call, testResult, now) ==
    IF testResult.inProgress
    THEN [call EXCEPT !.pc = "asleep", !.testResult = testResult]
    ELSE [call EXCEPT !.pc = "returned", !.testResult = testResult]

\* testResult = await this.refreshTestResult(...), then the loop condition:
\* await this.wait(250), or return testResult
Fetched(call, testResult, now) ==
    IF KeepPolling(testResult, now, call.endDate)
    THEN [call EXCEPT !.pc = "waiting", !.testResult = testResult,
                      !.waitUntil = now + WAIT_MS,
                      !.trace = Traced(call, "WAIT", WAIT_MS, now)]
    ELSE [call EXCEPT !.pc = "returned", !.testResult = testResult]

\* the server answers a status fetch for the job id the request names
FetchResponse(c, ok, d) ==
    /\ calls[c].pc = "fetching"
    /\ clock' = clock + d
    /\ LET id == calls[c].trace[Len(calls[c].trace)].n
       IN /\ ok => id \in DOMAIN jobs
          /\ calls' = [calls EXCEPT ![c] =
                 IF ok
                 THEN Fetched(@, [id |-> id, inProgress |-> jobs[id].inProgress], clock')
                 ELSE FetchFailed(@)]
    /\ UNCHANGED <<jobs, containerVars, ensembleVars, getterVars, networkVars>>

\* setTimeout(resolve, ms) fires, not before its time; the loop body goes on
\* with testResult = await this.refreshTestResult(testResultId)
WaitElapsed(c, d) ==
    /\ calls[c].pc = "waiting"
    /\ clock' = Max(clock, calls[c].waitUntil) + d
    /\ calls' = [calls EXCEPT ![c] = RefreshTestResult(@, @.testResultId, clock')]
    /\ UNCHANGED <<jobs, containerVars, ensembleVars, getterVars, networkVars>>

\* the server finishes a test job
JobCompletes(id) ==
    /\ jobs[id].inProgress
    /\ jobs' = [jobs EXCEPT ![id].inProgress = FALSE]
    /\ UNCHANGED <<clock, calls, containerVars, ensembleVars, getterVars, networkVars>>

\* const testResultPromise = container.testEndpoint(testRequest) was not
\* awaited: the test process goes on and activates the system under test
Activate(c) ==
    /\ calls[c].pc # "idle"
    /\ ~calls[c].awaited.done
    /\ Len(calls[c].activated) < MaxActivations
    /\ calls' = [calls EXCEPT ![c].activated =
                     Append(@, [sent |-> Len(calls[c].trace), pc |-> calls[c].pc])]
    /\ UNCHANGED <<clock, jobs, containerVars, ensembleVars, getterVars, networkVars>>

\* const testResult = await testResultPromise: goes on once the call settled
Await(c) ==
    /\ calls[c].pc \in {"returned", "rejected"}
    /\ ~calls[c].awaited.done
    /\ calls' = [calls EXCEPT ![c].awaited =
                     [done |-> TRUE, threw |-> calls[c].pc = "rejected",
                      testResult |-> IF calls[c].pc = "returned"
                                     THEN calls[c].testResult ELSE NoResult]]
    /\ UNCHANGED <<clock, jobs, containerVars, ensembleVars, getterVars, networkVars>>

----------------------------------------------------------------------------
(* The getters of the started containers *)

\* A string handed to a getter is a sequence of pieces: a piece is one
\* character the code looks for (a blank, a tab, "-", ".", "/", "{", "}"), or
\* a word made of letters and digits only.

\* the characters /\s/ matches
Whitespace == {" ", "\t"}

\* text.replace(/<one of chars>/g, '')
Removing(text, chars) == SelectSeq(text, LAMBDA piece : piece \notin chars)

\* text.replace(/<one of chars>/g, to)
Replacing(text, chars, to) ==
    [k \in DOMAIN text |-> IF text[k] \in chars THEN to ELSE text[k]]

\* text.indexOf(char), counted in pieces: 0 - 1 when the character is not there
RECURSIVE PieceIndexOf(_, _)
PieceIndexOf(text, char) ==
    IF text = <<>> THEN 0 - 1
    ELSE IF Head(text) = char THEN 0
    ELSE LET rest == PieceIndexOf(Tail(text), char)
         IN IF rest = 0 - 1 THEN rest ELSE rest + 1

\* text.split(' ')[1]: what stands between the first blank and the next one
SecondOfSplit(text) ==
    LET rest == SubSeq(text, PieceIndexOf(text, " ") + 2, Len(text))
        end == PieceIndexOf(rest, " ")
    IN IF end = 0 - 1 THEN rest ELSE SubSeq(rest, 1, end)

\* the services, versions and operation names the test process asks for
Services ==
    {<<"Pastry", " ", "orders", " ", "API">>, <<"API", "-", "Pastries">>,
     <<"Pastries", "\t", "Service">>}

Versions == {<<"0", ".", "1", ".", "0">>, <<"1", " ", "beta">>}

\* the operation names of an event-driven API: a channel, with or without
\* the verb before it
ChannelOperationNames ==
    {<<"SUBSCRIBE", " ", "pastry", "/", "orders">>,
     <<"PUBLISH", " ", "pastry", " ", "orders">>,
     <<"pastry", "/", "orders">>,
     <<"pastry", " ", "orders">>}

\* the operation names of the test cases: those, and the ones of a REST API
OperationNames ==
    ChannelOperationNames \cup {<<"GET", " ", "/", "pastries", "/", "{", "name", "}">>}

\* the hosts and the host ports Docker maps the container ports to
Hosts == {"localhost", "docker.local"}

HostPorts == {32768, 32769, 32770}

ContainerPorts ==
    {MICROCKS_HTTP_PORT, MICROCKS_GRPC_PORT, MICROCKS_ASYNC_MINION_HTTP_PORT}

Mappings ==
    {[host |-> h, ports |-> f] :
        h \in Hosts,
        f \in {g \in [ContainerPorts -> HostPorts] :
                  \A a, b \in ContainerPorts : a # b => g[a] # g[b]}}

DefaultMapping ==
    [host |-> "localhost",
     ports |-> [port \in ContainerPorts |->
                   IF port = MICROCKS_HTTP_PORT THEN 32768
                   ELSE IF port = MICROCKS_GRPC_PORT THEN 32769 ELSE 32770]]

\* startedTestContainer.getMappedPort(port)
GetMappedPort(port) == mapping.ports[port]

\* a getter that reads the mapped gRPC port
GetHttpEndpointOfGrpcPort ==
    <<"http://", mapping.host, ":", ToString(GetMappedPort(MICROCKS_GRPC_PORT))>>

\* getHttpEndpoint(): `http://${this.getHost()}:${this.httpPort}`
GetHttpEndpoint ==
    <<"http://", mapping.host, ":", ToString(GetMappedPort(MICROCKS_HTTP_PORT))>>

GetSoapMockEndpoint(service, version) ==
    GetHttpEndpoint \o <<"/soap/">> \o service \o <<"/">> \o version

GetRestMockEndpoint(service, version) ==
    GetHttpEndpoint \o <<"/rest/">> \o service \o <<"/">> \o version

GetGraphQLMockEndpoint(service, version) ==
    GetHttpEndpoint \o <<"/graphql/">> \o service \o <<"/">> \o version

\* getGrpcMockEndpoint(): `grpc://${this.getHost()}:${this.grpcPort}`
GetGrpcMockEndpoint ==
    <<"grpc://", mapping.host, ":", ToString(GetMappedPort(MICROCKS_GRPC_PORT))>>

NoGetter ==
    [call |-> "", args |-> <<>>, pc |-> "idle", request |-> "", status |-> 0,
     body |-> "", value |-> ""]

\* a getter that answers at once has returned the text given
Returned(call, args, text) ==
    [call |-> call, args |-> args, pc |-> "returned", request |-> "",
     status |-> 0, body |-> "", value |-> Joined(text)]

\* the getters are called on a started container, one call at a time
CanGet == container = "running" /\ getter.pc # "fetch"

\* the test process asks the started Microcks container for an endpoint
CallEndpointGetter ==
    /\ CanGet
    /\ \/ getter' = Returned("getHttpEndpoint", <<>>, GetHttpEndpoint)
       \/ getter' = Returned("getGrpcMockEndpoint", <<>>, GetGrpcMockEndpoint)
       \/ \E service \in Services, version \in Versions :
             \/ getter' = Returned("getSoapMockEndpoint", <<service, version>>,
                                   GetSoapMockEndpoint(service, version))
             \/ getter' = Returned("getRestMockEndpoint", <<service, version>>,
                                   GetRestMockEndpoint(service, version))
             \/ getter' = Returned("getGraphQLMockEndpoint", <<service, version>>,
                                   GetGraphQLMockEndpoint(service, version))
    /\ UNCHANGED <<mapping, networkVars, containerVars, testVars, ensembleVars>>

\* operationName may start with SUBSCRIBE or PUBLISH:
\* if (operationName.indexOf(' ') != -1) operationName = operationName.split(' ')[1]
StripVerb(operationName) ==
    IF PieceIndexOf(operationName, " ") # 0 - 1
    THEN SecondOfSplit(operationName)
    ELSE operationName

\* getWSMockEndpoint(service, version, operationName)
GetWSMockEndpoint(service, version, operationName) ==
    <<"ws://", mapping.host, ":",
      ToString(GetMappedPort(MICROCKS_ASYNC_MINION_HTTP_PORT)), "/api", "/ws/">>
        \o Replacing(service, Whitespace, "+") \o <<"/">>
        \o Replacing(version, Whitespace, "+") \o <<"/">>
        \o StripVerb(operationName)

\* getKafkaMockTopic(service, version, operationName)
GetKafkaMockTopic(service, version, operationName) ==
    Removing(Removing(service, Whitespace), {"-"}) \o <<"-">>
        \o version \o <<"-">>
        \o Replacing(StripVerb(operationName), {"/"}, "-")

\* getMQTTMockTopic(service, version, operationName)
GetMQTTMockTopic(service, version, operationName) ==
    Removing(Removing(service, Whitespace), {"-"}) \o <<"-">>
        \o Removing(version, Whitespace) \o <<"-">>
        \o StripVerb(operationName)

\* getAMQPMockDestination(service, version, operationName)
GetAMQPMockDestination(service, version, operationName) ==
    Removing(Removing(service, Whitespace), {"-"}) \o <<"-">>
        \o Removing(version, Whitespace) \o <<"-">>
        \o StripVerb(operationName)

\* getAmazonServiceMockDestination(service, version, operationName)
GetAmazonServiceMockDestination(service, version, operationName) ==
    Removing(Removing(service, Whitespace), {"-"}) \o <<"-">>
        \o Removing(Removing(version, Whitespace), {"."}) \o <<"-">>
        \o Replacing(StripVerb(operationName), {"/"}, "-")

GetAmazonSQSMockQueue(service, version, operationName) ==
    GetAmazonServiceMockDestination(service, version, operationName)

GetAmazonSNSMockTopic(service, version, operationName) ==
    GetAmazonServiceMockDestination(service, version, operationName)

\* the test process asks the started async minion for a mock destination:
\* ensemble.getAsyncMinionContainer()?.get...(service, version, operationName)
CallDestinationGetter ==
    /\ startedEnsemble.defined
    /\ StartedOf("asyncMinion") # UNDEFINED
    /\ sidecars["asyncMinion"] = "running"
    /\ getter.pc # "fetch"
    /\ \E service \in Services, version \in Versions,
             operationName \in ChannelOperationNames :
          LET args == <<service, version, operationName>>
          IN \/ getter' = Returned("getWSMockEndpoint", args,
                              GetWSMockEndpoint(service, version, operationName))
             \/ getter' = Returned("getKafkaMockTopic", args,
                              GetKafkaMockTopic(service, version, operationName))
             \/ getter' = Returned("getMQTTMockTopic", args,
                              GetMQTTMockTopic(service, version, operationName))
             \/ getter' = Returned("getAMQPMockDestination", args,
                              GetAMQPMockDestination(service, version, operationName))
             \/ getter' = Returned("getAmazonSQSMockQueue", args,
                              GetAmazonSQSMockQueue(service, version, operationName))
             \/ getter' = Returned("getAmazonSNSMockTopic", args,
                              GetAmazonSNSMockTopic(service, version, operationName))
    /\ UNCHANGED <<mapping, networkVars, containerVars, testVars, ensembleVars>>

\* the TestResults the test process holds: id and testNumber
TestResults == {<<"job1", "1">>, <<"job2", "2">>}

\* the answers of the server to a request for the messages of a test case
MessagesStatuses == {HTTP_OK} \cup ServerStatuses

MessagesBodies == {"[]", "[{request, response}]"}

\* encodeURIComponent(text): letters, digits and - _ . ! ~ * ' ( ) are kept,
\* every other character becomes the % escape of its UTF-8 bytes
EncodeURIComponent(text) ==
    [k \in DOMAIN text |->
        CASE text[k] = " " -> "%20"
          [] text[k] = "\t" -> "%09"
          [] text[k] = "/" -> "%2F"
          [] text[k] = "{" -> "%7B"
          [] text[k] = "}" -> "%7D"
          [] OTHER -> text[k]]

\* an encode that leaves the "/" to encodeURIComponent
EncodeKeepingSlash(operation) == EncodeURIComponent(operation)

\* encode(operation): operation.replace(/\//g, '!'), then encodeURIComponent
Encode(operation) == EncodeURIComponent(Replacing(operation, {"/"}, "!"))

\* the fetch of get(Event)MessagesForTestCase: path is "/messages/" or "/events/"
MessagesFetch(call, path, testResult, operationName) ==
    LET operation == Encode(operationName)
        testCaseId == <<testResult[1], "-", testResult[2], "-">> \o operation
    IN [call |-> call, args |-> <<testResult, operationName>>, pc |-> "fetch",
        request |-> Joined(GetHttpEndpoint \o <<"/api/tests/", testResult[1], path>>
                              \o testCaseId),
        status |-> 0, body |-> "", value |-> ""]

\* getMessagesForTestCase(testResult, operationName), up to its fetch
GetMessagesForTestCase ==
    /\ CanGet
    /\ \E testResult \in TestResults, operationName \in OperationNames :
          getter' = MessagesFetch("getMessagesForTestCase", "/messages/",
                                  testResult, operationName)
    /\ UNCHANGED <<mapping, networkVars, containerVars, testVars, ensembleVars>>

\* getEventMessagesForTestCase(testResult, operationName), up to its fetch
GetEventMessagesForTestCase ==
    /\ CanGet
    /\ \E testResult \in TestResults, operationName \in OperationNames :
          getter' = MessagesFetch("getEventMessagesForTestCase", "/events/",
                                  testResult, operationName)
    /\ UNCHANGED <<mapping, networkVars, containerVars, testVars, ensembleVars>>

\* the rest of both methods: the body on 200, an Error on any other status
MessagesResponse ==
    /\ getter.pc = "fetch"
    /\ \E status \in MessagesStatuses, body \in MessagesBodies :
          getter' = IF status = HTTP_OK
                    THEN [getter EXCEPT !.pc = "returned", !.status = status,
                                        !.body = body, !.value = body]
                    ELSE [getter EXCEPT !.pc = "rejected", !.status = status,
                                        !.body = body,
                                        !.value = "Couldn't retrieve messages"]
    /\ UNCHANGED <<mapping, networkVars, containerVars, testVars, ensembleVars>>

----------------------------------------------------------------------------
(* Specifications *)

\* new MicrocksContainersEnsemble(network, image)
EnsembleInit(network, image) ==
    /\ ensemble = NewEnsemble(network, image)
    /\ thrown = ""
    /\ attempts = {}
    /\ run = NotRun
    /\ sidecars = [s \in Sidecars |-> "created"]
    /\ launched = [m \in {"microcks"} \cup Sidecars |-> NoContainer]
    /\ startedEnsemble = NoStartedEnsemble
    /\ networks = [n \in Networks |-> "started"]
    /\ stopCalls = [m \in {"microcks"} \cup Sidecars |-> NoStop]

\* new MicrocksContainer()
Init ==
    /\ builder = NewBuilder
    /\ container = "created"
    /\ start = NotStarted
    /\ op = NoOp
    /\ requests = <<>>
    /\ inflight = 0
    /\ clock = 0
    /\ jobs = <<>>
    /\ calls = [c \in Calls |-> IdleCall]
    /\ EnsembleInit("network-1", DefaultEnsembleImage)
    /\ mapping = DefaultMapping
    /\ getter = NoGetter

\* await new MicrocksContainer().start()
StartedInit ==
    /\ builder = NewBuilder
    /\ container = "running"
    /\ start = [pc |-> "resolved", loop |-> Len(StartLists) + 1, i |-> 1]
    /\ op = NoOp
    /\ requests = <<>>
    /\ inflight = 0
    /\ clock = 0
    /\ jobs = <<>>
    /\ calls = [c \in Calls |-> IdleCall]
    /\ EnsembleInit("network-1", DefaultEnsembleImage)
    /\ mapping = DefaultMapping
    /\ getter = NoGetter

Configure ==
    \/ \E a \in Arrays(Paths) : WithMainArtifacts(a)
    \/ \E a \in Arrays(Paths) : WithSecondaryArtifacts(a)
    \/ \E a \in Arrays(Urls) : WithMainRemoteArtifacts(a)
    \/ \E a \in Arrays(Urls) : WithSecondaryRemoteArtifacts(a)
    \/ \E a \in Arrays(Paths) : WithSnapshots(a)
    \/ \E s \in Secrets : WithSecret(s)

ServerAnswers ==
    \/ StatReturns
    \/ \E status \in ServerStatuses : Responds(status)

Import ==
    \/ \E k \in UploadCalls, p \in Paths : DirectCall(k, p)
    \/ \E k \in {"downloadAsMainArtifact", "downloadAsSecondaryArtifact"}, u \in Urls :
          DirectCall(k, u)
    \/ \E s \in Secrets : DirectCall("createSecret", s)

\* what one testEndpoint call does next
CallStep(c) ==
    \/ \E t \in Timeouts : TestEndpoint(c, t)
    \/ \E s \in ServerStatuses, d \in Delays : SubmitResponse(c, s, d)
    \/ \E ok \in BOOLEAN, d \in Delays : FetchResponse(c, ok, d)
    \/ \E d \in Delays : WaitElapsed(c, d)

\* a builder is configured and started, and the started container is used
StartNext ==
    \/ Configure
    \/ Start /\ UNCHANGED ensembleVars
    \/ ContainerReady
    \/ ContainerFails
    \/ ServerAnswers
    \/ Import

SpecStart == Init /\ [][StartNext]_vars

\* a started container is used: imports and one contract test, each awaited
TestNext ==
    \/ Import
    \/ ServerAnswers
    \/ CallStep("t1")
    \/ \E id \in DOMAIN jobs : JobCompletes(id)

SpecTest == StartedInit /\ [][TestNext]_vars

\* a contract test is launched without await: the test process acts while the
\* call polls, and awaits the promise in the end
UnawaitedNext ==
    \/ CallStep("t1")
    \/ Activate("t1")
    \/ Await("t1")
    \/ \E id \in DOMAIN jobs : JobCompletes(id)

SpecUnawaited == StartedInit /\ [][UnawaitedNext]_vars

\* the timeout of each of two tests launched together
TimeoutOf(c) == IF c = "t1" THEN 0 ELSE WAIT_MS

\* what one of two testEndpoint calls in flight together does next; the
\* answers to the submissions come late or at once, the others at once
ConcurrentStep(c) ==
    \/ TestEndpoint(c, TimeoutOf(c))
    \/ \E s \in ServerStatuses, d \in Delays : SubmitResponse(c, s, d)
    \/ \E ok \in BOOLEAN : FetchResponse(c, ok, 0)
    \/ WaitElapsed(c, 0)

\* Promise.all([testEndpoint(r1), testEndpoint(r2)]) on one started container
ConcurrentNext ==
    \/ \E c \in Calls : ConcurrentStep(c)
    \/ \E id \in DOMAIN jobs : JobCompletes(id)

SpecConcurrent == StartedInit /\ [][ConcurrentNext]_vars

\* one contract test, on a server that may never finish the job
PollNext ==
    \/ CallStep("t1")
    \/ \E id \in DOMAIN jobs : JobCompletes(id)

\* every request gets its response and every timer fires
Responsive ==
    /\ WF_vars(\E s \in ServerStatuses, d \in Delays : SubmitResponse("t1", s, d))
    /\ WF_vars(\E ok \in BOOLEAN, d \in Delays : FetchResponse("t1", ok, d))
    /\ WF_vars(\E d \in Delays : WaitElapsed("t1", d))

SpecPoll == StartedInit /\ [][PollNext]_vars /\ Responsive

\* the artifacts and the secret an ensemble hands on to its main container
EnsembleArtifacts == {<<"a.yaml">>}

ConfigureEnsemble ==
    \/ WithPostman
    \/ \E image \in AsyncImages : WithAsyncFeature(image)
    \/ \E connection \in KafkaConnections : WithKafkaConnection(connection)
    \/ \E connection \in GenericConnections : WithMQTTConnection(connection)
    \/ \E connection \in GenericConnections : WithAMQPConnection(connection)
    \/ \E connection \in AmazonServiceConnections : WithAmazonSQSConnection(connection)
    \/ \E connection \in AmazonServiceConnections : WithAmazonSNSConnection(connection)
    \/ \E a \in EnsembleArtifacts : WithMainArtifacts(a)
    \/ WithSecret("secret-a")

\* an ensemble is configured, started and stopped
EnsembleNext ==
    \/ ConfigureEnsemble
    \/ EnsembleStart
    \/ ContainerReady
    \/ ContainerFails
    \/ ServerAnswers
    \/ \E m \in Sidecars : SidecarReady(m)
    \/ \E m \in Sidecars : SidecarFails(m)
    \/ EnsembleStop
    \/ \E m \in {"microcks"} \cup Sidecars : MemberStopped(m)
    \/ \E m \in {"microcks"} \cup Sidecars : MemberStopFails(m)
    \/ NetworkStop

\* new MicrocksContainersEnsemble(network)
InitEnsemble ==
    /\ builder = NewBuilder
    /\ container = "created"
    /\ start = NotStarted
    /\ op = NoOp
    /\ requests = <<>>
    /\ inflight = 0
    /\ clock = 0
    /\ jobs = <<>>
    /\ calls = [c \in Calls |-> IdleCall]
    /\ \E network \in Networks : EnsembleInit(network, DefaultEnsembleImage)
    /\ mapping = DefaultMapping
    /\ getter = NoGetter

SpecEnsemble == InitEnsemble /\ [][EnsembleNext]_vars

\* an ensemble with its two sidecars has been started: await new
\* MicrocksContainersEnsemble(network).withPostman().withAsyncFeature().start()
InitGetters ==
    /\ builder = NewBuilder
    /\ container = "running"
    /\ start = [pc |-> "resolved", loop |-> Len(StartLists) + 1, i |-> 1]
    /\ op = NoOp
    /\ requests = <<>>
    /\ inflight = 0
    /\ clock = 0
    /\ jobs = <<>>
    /\ calls = [c \in Calls |-> IdleCall]
    /\ ensemble =
           [NewEnsemble("network-1", DefaultEnsembleImage) EXCEPT
               !.postmanContainer =
                   NewPostmanContainer("network-1",
                       <<"quay.io/microcks/", "microcks-postman-runtime", ":latest">>),
               !.asyncMinionContainer =
                   NewAsyncMinionContainer("network-1",
                       AsyncMinionImage(<<>>, DefaultEnsembleImage))]
    /\ thrown = ""
    /\ attempts = {}
    /\ run = [start |-> "resolved", stop |-> "idle",
              started |-> {"microcks"} \cup Sidecars, options |-> UNDEFINED]
    /\ sidecars = [s \in Sidecars |-> "running"]
    /\ launched = [m \in {"microcks"} \cup Sidecars |-> BuilderOf(m)]
    /\ startedEnsemble = NewStartedEnsemble({"microcks"} \cup Sidecars)
    /\ networks = [n \in Networks |-> "started"]
    /\ stopCalls = [m \in {"microcks"} \cup Sidecars |-> NoStop]
    /\ mapping \in Mappings
    /\ getter = NoGetter

GettersNext ==
    \/ CallEndpointGetter
    \/ CallDestinationGetter
    \/ GetMessagesForTestCase
    \/ GetEventMessagesForTestCase
    \/ MessagesResponse

SpecGetters == InitGetters /\ [][GettersNext]_vars

\* the images an ensemble is made with, and those handed to withAsyncFeature:
\* registry, name, tag, and what follows the tag
MainImages ==
    {DefaultEnsembleImage,
     <<"quay.io/microcks/", "microcks-uber", ":nightly", "-native">>,
     <<"quay.io/microcks/", "microcks-uber", ":1.11.0", "-native">>,
     <<"registry.local/", "microcks", ":latest">>}

MinionImages ==
    AsyncImages \cup
        {<<"quay.io/microcks/", "microcks-uber-async-minion", ":1.11.0", "-native">>,
         <<"quay.io/microcks/", "microcks-uber-async-minion", ":test", "-native", "-native">>}

\* new MicrocksContainersEnsemble(network, image)
InitImages ==
    /\ builder = NewBuilder
    /\ container = "created"
    /\ start = NotStarted
    /\ op = NoOp
    /\ requests = <<>>
    /\ inflight = 0
    /\ clock = 0
    /\ jobs = <<>>
    /\ calls = [c \in Calls |-> IdleCall]
    /\ \E network \in Networks, image \in MainImages : EnsembleInit(network, image)
    /\ mapping = DefaultMapping
    /\ getter = NoGetter

\* the sidecars of an ensemble are chosen
ImagesNext ==
    \/ WithPostman
    \/ \E image \in MinionImages : WithAsyncFeature(image)
    \/ \E connection \in KafkaConnections : WithKafkaConnection(connection)

SpecImages == InitImages /\ [][ImagesNext]_vars

\* an async minion is made and connected to brokers, any number of times
MinionNext ==
    \/ WithAsyncFeature(<<>>)
    \/ \E connection \in KafkaConnections : MinionConnects("KAFKA", connection)
    \/ \E connection \in GenericConnections : MinionConnects("MQTT", connection)
    \/ \E connection \in GenericConnections : MinionConnects("AMQP", connection)
    \/ \E connection \in AmazonServiceConnections : MinionConnects("SQS", connection)
    \/ \E connection \in AmazonServiceConnections : MinionConnects("SNS", connection)

SpecMinion == InitEnsemble /\ [][MinionNext]_vars

\* the ensemble that has withDebugLogLevel is configured and started
DebugNext ==
    \/ WithDebugLogLevel
    \/ WithPostman
    \/ \E image \in AsyncImages : WithAsyncFeature(image)
    \/ \E connection \in KafkaConnections : WithKafkaConnection(connection)
    \/ StartWithEnvironment
    \/ ContainerReady
    \/ ContainerFails
    \/ \E m \in Sidecars : SidecarReady(m)
    \/ \E m \in Sidecars : SidecarFails(m)

SpecDebug == InitEnsemble /\ [][DebugNext]_vars

----------------------------------------------------------------------------
(* Properties of testEndpoint (under SpecTest) *)

Trace(c) == calls[c].trace

\* every status request of a call names the job the server created for it
PollsOwnJob(c) ==
    \A k \in 1..Len(Trace(c)) :
        Trace(c)[k].op = "GET" =>
            /\ Trace(c)[k].n = calls[c].testResultId
            /\ Trace(c)[k].n \in DOMAIN jobs
            /\ jobs[Trace(c)[k].n].call = c

\* the trace is POST, GET, then WAIT(250) and GET in turn
OneWaitBetweenFetches(c) ==
    \A k \in 1..Len(Trace(c)) :
        /\ k = 1 => Trace(c)[k].op = "POST"
        /\ (k > 1 /\ k % 2 = 0) => Trace(c)[k].op = "GET"
        /\ (k > 1 /\ k % 2 = 1) => Trace(c)[k].op = "WAIT" /\ Trace(c)[k].n = WAIT_MS

\* a wait or a fetch after the first is pending only if the last result
\* fetched was in progress
StopsWhenDone(c) ==
    (calls[c].pc \in {"waiting", "fetching"} /\ Len(Trace(c)) > 2)
        => calls[c].testResult.inProgress

\* the deadline is the time the id was received plus timeout plus 1000 ms
DeadlineOf(c) ==
    calls[c].testResultId # 0
        => calls[c].endDate = calls[c].idAt + calls[c].timeout + DEADLINE_MARGIN_MS

\* C1: a testEndpoint call that returns a TestResult returns one whose
\* inProgress flag is false, whether polling ended by completion or by the
\* deadline
C1_ReturnedNotInProgress ==
    \A c \in Calls :
        calls[c].pc = "returned" => ~calls[c].testResult.inProgress

\* C4: the first status fetch answered with a non-OK status rejects the
\* call at once: no wait and no fetch follows, and no TestResult is returned
C4_FetchErrorRejects ==
    [][\A c \in Calls :
          /\ (\E d \in Delays : FetchResponse(c, FALSE, d))
                => /\ calls'[c].pc = "rejected"
                   /\ calls'[c].trace = calls[c].trace
          /\ calls[c].pc = "rejected" => calls'[c] = calls[c]]_vars

\* a status fetch failed after at least one wait
C4_Witness ==
    /\ calls["t1"].error = "fetch"
    /\ calls["t1"].pc = "rejected"
    /\ Len(Trace("t1")) >= 4

\* C5 as stated: the call polls its own job, one 250 ms wait lies between
\* two fetches, nothing is fetched after a finished result, and no wait and
\* no fetch starts once the clock has reached the deadline
C5_NoStepPastDeadline ==
    \A c \in Calls :
        /\ PollsOwnJob(c)
        /\ OneWaitBetweenFetches(c)
        /\ StopsWhenDone(c)
        /\ DeadlineOf(c)
        /\ \A k \in 1..Len(Trace(c)) : ~Trace(c)[k].late

\* C5 as amended: the call polls its own job, one 250 ms wait lies between
\* two fetches, nothing is fetched after a finished result, and no wait
\* starts once the clock has reached the deadline (id received + timeout +
\* 1000 ms); a fetch starts past the deadline only as the first fetch or as
\* the fetch that follows a wait begun before the deadline
C5_NoWaitPastDeadline ==
    \A c \in Calls :
        /\ PollsOwnJob(c)
        /\ OneWaitBetweenFetches(c)
        /\ StopsWhenDone(c)
        /\ DeadlineOf(c)
        /\ \A k \in 1..Len(Trace(c)) :
              /\ Trace(c)[k].op = "WAIT" => ~Trace(c)[k].late
              /\ (Trace(c)[k].op = "GET" /\ Trace(c)[k].late)
                    => \/ k = 2
                       \/ Trace(c)[k - 1].op = "WAIT" /\ ~Trace(c)[k - 1].late

\* a call returned after a fetch that began past the deadline, its wait
\* having begun before it
C5_Witness ==
    /\ calls["t1"].pc = "returned"
    /\ Len(Trace("t1")) >= 4
    /\ Trace("t1")[Len(Trace("t1"))].late
    /\ ~Trace("t1")[Len(Trace("t1")) - 1].late

----------------------------------------------------------------------------
(* Properties of the imports, downloads and secrets *)

BadPathErrors == {"ENOENT", "does not exist or can't be read"}

\* the submission of a testEndpoint call: one POST, answered 201 or rejected
\* with nothing polled
SubmitsOnce(c) ==
    /\ Cardinality({k \in 1..Len(Trace(c)) : Trace(c)[k].op = "POST"})
          = (IF calls[c].pc = "idle" THEN 0 ELSE 1)
    /\ calls[c].error = "launch" => calls[c].pc = "rejected" /\ Len(Trace(c)) = 1

\* a request answered with another status than 201 rejects the call
RejectsUnlessCreated ==
    /\ op.pc = "resolved" => op.request.status = HTTP_CREATED
    /\ op.request.status \notin {0, HTTP_CREATED} => op.pc = "rejected"

IsUpload(r) == r.uri \in {"/api/artifact/upload", "/api/artifact/upload?mainArtifact=false", "/api/import"}

\* C2: an upload of a path that is missing or no regular file sends no
\* request and rejects, called on the started container or by start() for a
\* path registered on the builder, which then rejects too
C2_BadPathSendsNothing ==
    /\ (op.kind \in UploadCalls /\ FileKind(op.arg) # "file")
          => /\ op.sent = 0
             /\ op.pc \in {"stat", "rejected"}
             /\ inflight = 0
             /\ (op.pc = "rejected" /\ op.by = "start") => start.pc = "rejected"
    /\ \A k \in 1..Len(requests) :
          IsUpload(requests[k]) => FileKind(requests[k].payload) = "file"

\* start() rejected on a registered directory path after one accepted import
C2_Witness ==
    /\ start.pc = "rejected"
    /\ op.by = "start"
    /\ op.error = "does not exist or can't be read"
    /\ op.sent = 0
    /\ Len(requests) = 1

----------------------------------------------------------------------------
(* Properties of MicrocksContainer.start() (under SpecStart) *)

AllCreated(n) == \A k \in 1..n : requests[k].status = HTTP_CREATED

\* C6: start() sends nothing before the container is running; it has at most
\* one request unanswered, sent only after every earlier one was answered
\* 201; it resolves only when every request has been answered
C6_StartIsSequential ==
    /\ (Len(requests) > 0 \/ inflight > 0 \/ op.pc # "idle"
           \/ start.pc \in {"loop", "resolved"})
          => container = "running"
    /\ inflight <= 1
    /\ Len(requests) > 0 => AllCreated(Len(requests) - 1)
    /\ start.pc = "loop" /\ op.pc = "stat" => AllCreated(Len(requests))
    /\ start.pc = "resolved"
          => /\ AllCreated(Len(requests))
             /\ Len(requests) = Registered(builder)
             /\ (op.by = "start" \/ op.pc = "idle") => inflight = 0

\* start() resolved after two requests
C6_Witness ==
    /\ start.pc = "resolved"
    /\ op = NoOp
    /\ Len(requests) = 2

\* the payloads start() has sent by the method of its loop, in the order sent
RECURSIVE SentBy(_, _)
SentBy(loop, n) ==
    IF n = 0 THEN <<>>
    ELSE LET r == requests[n]
         IN IF [r EXCEPT !.status = 0] = RequestOf(StartCalls[loop], r.payload)
            THEN Append(SentBy(loop, n - 1), r.payload)
            ELSE SentBy(loop, n - 1)

IsPrefix(s, t) == Len(s) <= Len(t) /\ SubSeq(t, 1, Len(s)) = s

\* C7: when start() resolves, the items sent for each list are exactly the
\* items registered in it, each once and in registration order; a with* call
\* extends its list and never drops what was registered before
C7_EveryItemSubmittedOnce ==
    /\ [](start.pc = "resolved"
            => \A loop \in 1..Len(StartLists) :
                  SentBy(loop, Len(requests)) = builder[StartLists[loop]])
    /\ [][\A loop \in 1..Len(StartLists) :
            IsPrefix(builder[StartLists[loop]], builder'[StartLists[loop]])]_vars

\* start() resolved with two different main artifacts
C7_Witness ==
    /\ start.pc = "resolved"
    /\ builder.mainArtifacts = <<"b.json", "a.yaml">>
    /\ Len(requests) = 2

----------------------------------------------------------------------------
(* The ensemble: members, discovery settings, broker connections *)

\* the state a member's container is in
StateOf(m) == IF m = "microcks" THEN container ELSE sidecars[m]

\* the sidecars the builder has enabled
Enabled == {s \in Sidecars : BuilderOf(s).defined}

\* C8: once the ensemble's start() has resolved, the started ensemble exists,
\* getMicrocksContainer() returns the started main container, and
\* getPostmanContainer() / getAsyncMinionContainer() return the started
\* sidecar exactly for the sidecars that were enabled and undefined
\* otherwise; until stop() is called the main container and every enabled
\* sidecar is running; once stop() has resolved, every member that was
\* started is stopped.
C8_StartedAndStoppedTogether ==
    /\ run.start = "resolved" =>
          /\ startedEnsemble.defined
          /\ StartedOf("microcks") = "microcks"
          /\ \A s \in Sidecars :
                StartedOf(s) = (IF s \in Enabled THEN s ELSE UNDEFINED)
          /\ run.started = {"microcks"} \cup Enabled
          /\ run.stop = "idle" => \A m \in run.started : StateOf(m) = "running"
    /\ run.stop = "resolved" => \A m \in run.started : StateOf(m) = "stopped"

\* an ensemble with both sidecars was started, then stopped
C8_Witness ==
    /\ run.start = "resolved"
    /\ run.stop = "resolved"
    /\ run.started = {"microcks", "postman", "asyncMinion"}

\* C9: every member container, as configured and as it was when its start()
\* was called, is on the network the ensemble was made with; the main
\* container's POSTMAN_RUNNER_URL, TEST_CALLBACK_URL and ASYNC_MINION_URL are
\* http://postman:3000, http://microcks:8080 and
\* http://microcks-async-minion:8081, the async minion's MICROCKS_HOST_PORT is
\* microcks:8080, and these agree with the aliases and exposed ports of the
\* members they name; no member is started before the main container was
\* started with these settings.
C9_DiscoveryConsistent ==
    LET OnNetwork(c) == c.defined => c.network = ensemble.network
        MainSettings(main) ==
            /\ main.env.POSTMAN_RUNNER_URL = "http://postman:3000"
            /\ main.env.TEST_CALLBACK_URL = "http://microcks:8080"
            /\ main.env.ASYNC_MINION_URL = "http://microcks-async-minion:8081"
            /\ main.env.TEST_CALLBACK_URL =
                   "http://" \o main.aliases[1] \o ":" \o ToString(main.exposedPorts[1])
        PostmanSettings(main, postman) ==
            main.env.POSTMAN_RUNNER_URL = "http://" \o postman.aliases[1] \o ":3000"
        MinionSettings(main, minion) ==
            /\ minion.env.MICROCKS_HOST_PORT = "microcks:8080"
            /\ minion.env.MICROCKS_HOST_PORT =
                   main.aliases[1] \o ":" \o ToString(main.exposedPorts[1])
            /\ main.env.ASYNC_MINION_URL =
                   "http://" \o minion.aliases[1] \o ":" \o ToString(minion.exposedPorts[1])
    IN /\ \A m \in {"microcks"} \cup Sidecars : OnNetwork(BuilderOf(m)) /\ OnNetwork(launched[m])
       /\ MainSettings(ensemble.microcksContainer)
       /\ ensemble.postmanContainer.defined
             => PostmanSettings(ensemble.microcksContainer, ensemble.postmanContainer)
       /\ ensemble.asyncMinionContainer.defined
             => MinionSettings(ensemble.microcksContainer, ensemble.asyncMinionContainer)
       /\ \A m \in {"microcks"} \cup Sidecars :
             launched[m].defined =>
                 /\ launched["microcks"].defined
                 /\ MainSettings(launched["microcks"])
       /\ launched["postman"].defined
             => PostmanSettings(launched["microcks"], launched["postman"])
       /\ launched["asyncMinion"].defined
             => MinionSettings(launched["microcks"], launched["asyncMinion"])

\* the main container and both sidecars of an ensemble made on the second
\* network have been started
C9_Witness ==
    /\ ensemble.network = "network-2"
    /\ \A m \in {"microcks"} \cup Sidecars : launched[m].defined
    /\ run.start = "resolved"

\* the calls the broker connection methods of the ensemble take
ConnectionCalls ==
    ({"KAFKA"} \X KafkaConnections)
        \cup ({"MQTT", "AMQP"} \X GenericConnections)
        \cup ({"SQS", "SNS"} \X AmazonServiceConnections)

\* the minion holds the connection of the protocol in its environment
Recorded(minion, protocol, connection) ==
    /\ minion.defined
    /\ IndexOf(minion.extraProtocols, "," \o protocol) # 0 - 1
    /\ minion.env.ASYNC_PROTOCOLS = Joined(minion.extraProtocols)
    /\ CASE protocol = "KAFKA" ->
                minion.env.KAFKA_BOOTSTRAP_SERVER = connection.bootstrapServers
         [] protocol = "MQTT" ->
                /\ minion.env.MQTT_SERVER = connection.server
                /\ minion.env.MQTT_USERNAME = connection.username
                /\ minion.env.MQTT_PASSWORD = connection.password
         [] protocol = "AMQP" ->
                /\ minion.env.AMQP_SERVER = connection.server
                /\ minion.env.AMQP_USERNAME = connection.username
                /\ minion.env.AMQP_PASSWORD = connection.password
         [] protocol = "SQS" ->
                /\ minion.env.AWS_SQS_REGION = connection.region
                /\ minion.env.AWS_ACCESS_KEY_ID = connection.accessKey
                /\ minion.env.AWS_SECRET_ACCESS_KEY = connection.secretKey
                /\ connection.endpointOverride # UNDEFINED
                      => minion.env.AWS_SQS_ENDPOINT = connection.endpointOverride
         [] protocol = "SNS" ->
                /\ minion.env.AWS_SNS_REGION = connection.region
                /\ minion.env.AWS_ACCESS_KEY_ID = connection.accessKey
                /\ minion.env.AWS_SECRET_ACCESS_KEY = connection.secretKey
                /\ connection.endpointOverride # UNDEFINED
                      => minion.env.AWS_SNS_ENDPOINT = connection.endpointOverride

\* C10: a broker connection method of the ensemble called before
\* withAsyncFeature throws 'Async feature must have been enabled first' and
\* leaves the ensemble's configuration as it was; called after
\* withAsyncFeature it throws nothing and the async minion holds the
\* connection.
C10_ConnectionNeedsAsyncFeature ==
    [][\A call \in ConnectionCalls :
          WithConnection(call[1], call[2]) =>
              IF ensemble.asyncMinionContainer.defined
              THEN /\ thrown' = ""
                   /\ Recorded(ensemble'.asyncMinionContainer, call[1], call[2])
              ELSE /\ thrown' = "Async feature must have been enabled first"
                   /\ ensemble' = ensemble]_vars

\* the same connection was refused before withAsyncFeature and taken after it
C10_Witness ==
    \E a, b \in attempts :
        /\ a.threw /\ ~b.threw
        /\ a.protocol = b.protocol /\ a.connection = b.connection
        /\ Recorded(ensemble.asyncMinionContainer, b.protocol, b.connection)

----------------------------------------------------------------------------
(* The role of an artifact, the order of start(), the endpoints *)

\* the payloads of the first n requests of start() that went to the uri with
\* the mainArtifact form field given, in the order sent
RECURSIVE PayloadsTo(_, _, _)
PayloadsTo(uri, mainArtifact, n) ==
    IF n = 0 THEN <<>>
    ELSE LET r == requests[n]
         IN IF r.uri = uri /\ r.mainArtifact = mainArtifact
            THEN Append(PayloadsTo(uri, mainArtifact, n - 1), r.payload)
            ELSE PayloadsTo(uri, mainArtifact, n - 1)

\* C11: the request a method has sent carries the role of the method:
\* importAsMainArtifact posts the file to /api/artifact/upload,
\* importAsSecondaryArtifact to /api/artifact/upload?mainArtifact=false,
\* downloadAsMainArtifact posts mainArtifact=true and the url to
\* /api/artifact/download, downloadAsSecondaryArtifact mainArtifact=false and
\* the url; and the requests start() has sent in each role are, in order, the
\* first items registered in that role, so that no item is sent in the other
\* role.
C11_RolePreserved ==
    /\ op.sent > 0 =>
          /\ op.request.payload = op.arg
          /\ op.kind = "importAsMainArtifact" =>
                op.request.uri = "/api/artifact/upload" /\ op.request.mainArtifact = ""
          /\ op.kind = "importAsSecondaryArtifact" =>
                /\ op.request.uri = "/api/artifact/upload?mainArtifact=false"
                /\ op.request.mainArtifact = ""
          /\ op.kind = "downloadAsMainArtifact" =>
                /\ op.request.uri = "/api/artifact/download"
                /\ op.request.mainArtifact = "true"
          /\ op.kind = "downloadAsSecondaryArtifact" =>
                /\ op.request.uri = "/api/artifact/download"
                /\ op.request.mainArtifact = "false"
    /\ LET n == Len(requests)
       IN /\ IsPrefix(PayloadsTo("/api/artifact/upload", "", n), builder.mainArtifacts)
          /\ IsPrefix(PayloadsTo("/api/artifact/upload?mainArtifact=false", "", n),
                      builder.secondaryArtifacts)
          /\ IsPrefix(PayloadsTo("/api/artifact/download", "true", n),
                      builder.mainRemoteArtifacts)
          /\ IsPrefix(PayloadsTo("/api/artifact/download", "false", n),
                      builder.secondaryRemoteArtifacts)

\* start() resolved after sending the same file once in each role
C11_Witness ==
    /\ start.pc = "resolved"
    /\ builder.mainArtifacts = <<"a.yaml">>
    /\ builder.secondaryArtifacts = <<"a.yaml">>
    /\ Len(requests) = 2

\* the endpoint of the started Microcks container, as a string
HttpEndpointString ==
    "http://" \o mapping.host \o ":" \o ToString(mapping.ports[MICROCKS_HTTP_PORT])

\* C12: getHttpEndpoint() returns http://host:port with the mapped port of
\* container port 8080; getSoapMockEndpoint, getRestMockEndpoint and
\* getGraphQLMockEndpoint return that endpoint, then /soap/, /rest/ or
\* /graphql/, then service, "/" and version as they were given;
\* getGrpcMockEndpoint() returns grpc://host:port with the mapped port of
\* container port 9090.
C12_MockEndpoints ==
    LET Template(protocol) ==
            HttpEndpointString \o protocol \o Joined(getter.args[1]) \o "/"
                \o Joined(getter.args[2])
    IN /\ MICROCKS_HTTP_PORT = 8080 /\ MICROCKS_GRPC_PORT = 9090
       /\ getter.call = "getHttpEndpoint" => getter.value = HttpEndpointString
       /\ getter.call = "getSoapMockEndpoint" => getter.value = Template("/soap/")
       /\ getter.call = "getRestMockEndpoint" => getter.value = Template("/rest/")
       /\ getter.call = "getGraphQLMockEndpoint" => getter.value = Template("/graphql/")
       /\ getter.call = "getGrpcMockEndpoint" =>
             getter.value = "grpc://" \o mapping.host \o ":"
                                \o ToString(mapping.ports[MICROCKS_GRPC_PORT])

\* the REST endpoint of a service with blanks in its name was asked for, on
\* a host other than the default one
C12_Witness ==
    /\ getter.call = "getRestMockEndpoint"
    /\ getter.args = <<<<"Pastry", " ", "orders", " ", "API">>, <<"0", ".", "1", ".", "0">>>>
    /\ getter.value = "http://docker.local:32770/rest/Pastry orders API/0.1.0"

\* the operation name without the verb it starts with, if it starts with one
WithoutVerbPrefix(operationName) ==
    IF /\ Len(operationName) >= 2
       /\ operationName[1] \in {"SUBSCRIBE", "PUBLISH"}
       /\ operationName[2] = " "
    THEN SubSeq(operationName, 3, Len(operationName))
    ELSE operationName

\* C13: getAmazonSQSMockQueue and getAmazonSNSMockTopic return the service
\* without whitespace and "-", then "-", the version without whitespace and
\* ".", then "-", the operation name without its verb prefix and with "-" for
\* every "/"; getKafkaMockTopic returns the same with the version as given;
\* getMQTTMockTopic and getAMQPMockDestination take the whitespace out of the
\* version and keep the "/" of the operation name.
C13_DestinationNames ==
    LET service == getter.args[1]
        version == getter.args[2]
        operation == WithoutVerbPrefix(getter.args[3])
        Name(v, o) ==
            Joined(Removing(service, Whitespace \cup {"-"})) \o "-" \o Joined(v)
                \o "-" \o Joined(o)
    IN /\ getter.call \in {"getAmazonSQSMockQueue", "getAmazonSNSMockTopic"} =>
             getter.value = Name(Removing(version, Whitespace \cup {"."}),
                                 Replacing(operation, {"/"}, "-"))
       /\ getter.call = "getKafkaMockTopic" =>
             getter.value = Name(version, Replacing(operation, {"/"}, "-"))
       /\ getter.call \in {"getMQTTMockTopic", "getAMQPMockDestination"} =>
             getter.value = Name(Removing(version, Whitespace), operation)

\* C14: getMessagesForTestCase and getEventMessagesForTestCase fetch
\* /api/tests/{id}/messages/ or /events/ followed by {id}-{testNumber}-{op},
\* where op is the operation name with "!" for every "/", then URI-component
\* encoded; they return the body of a 200 answer and raise for any other status.
C14_TestCaseMessages ==
    LET testResult == getter.args[1]
        operation == EncodeURIComponent(Replacing(getter.args[2], {"/"}, "!"))
        Path(kind) ==
            HttpEndpointString \o "/api/tests/" \o testResult[1] \o kind
                \o testResult[1] \o "-" \o testResult[2] \o "-" \o Joined(operation)
    IN /\ getter.call = "getMessagesForTestCase" =>
             getter.request = Path("/messages/")
       /\ getter.call = "getEventMessagesForTestCase" =>
             getter.request = Path("/events/")
       /\ getter.call \in {"getMessagesForTestCase", "getEventMessagesForTestCase"} =>
             /\ getter.pc = "returned" =>
                    getter.status = 200 /\ getter.value = getter.body
             /\ getter.pc = "rejected" => getter.status # 200
             /\ getter.pc = "fetch" => getter.status = 0

C14_Witness ==
    /\ getter.call = "getMessagesForTestCase"
    /\ getter.pc = "returned"
    /\ getter.value = "[{request, response}]"
    /\ getter.request =
          "http://localhost:32768/api/tests/job1/messages/job1-1-GET%20!pastries!%7Bname%7D"

TagOf(image) == SubSeq(image, 3, Len(image))

EndsWithNative(image) == image # <<>> /\ image[Len(image)] = "-native"

WithoutNative(image) ==
    IF EndsWithNative(image) THEN SubSeq(image, 1, Len(image) - 1) ELSE image

\* C16 as stated: the image of the async minion never ends with "-native" and
\* has the tag of the main image, whether withAsyncFeature was given an image
\* or not.
C16_MinionImageKeepsMainTag ==
    ensemble.asyncMinionContainer.defined =>
        /\ ~EndsWithNative(ensemble.asyncMinionContainer.image)
        /\ TagOf(ensemble.asyncMinionContainer.image) =
              TagOf(ensemble.microcksContainer.image)

\* C16: withAsyncFeature() without an image takes the main image with
\* "microcks-uber" replaced by "microcks-uber-async-minion", with an image it
\* takes that image; one trailing "-native" is cut from it, so that the tag is
\* the one of the image taken, main or given, less one trailing "-native".
C16_MinionImageDerived ==
    [][\A image \in MinionImages :
          WithAsyncFeature(image) =>
              LET mainImage == ensemble.microcksContainer.image
                  taken == IF image # <<>> THEN image
                           ELSE [k \in DOMAIN mainImage |->
                                    IF mainImage[k] = "microcks-uber"
                                    THEN "microcks-uber-async-minion"
                                    ELSE mainImage[k]]
                  minion == ensemble'.asyncMinionContainer
              IN /\ minion.defined
                 /\ minion.image = WithoutNative(taken)
                 /\ TagOf(minion.image) = WithoutNative(TagOf(taken))]_vars

C16_Witness ==
    /\ ensemble.microcksContainer.image =
          <<"quay.io/microcks/", "microcks-uber", ":nightly", "-native">>
    /\ ensemble.asyncMinionContainer.defined
    /\ ensemble.asyncMinionContainer.image =
          <<"quay.io/microcks/", "microcks-uber-async-minion", ":nightly">>

(* The order of start() *)

\* the place, in the order of start(), of the kind of item a request submits
KindOf(r) ==
    CHOOSE loop \in 1..Len(StartLists) :
        [r EXCEPT !.status = 0] = RequestOf(StartCalls[loop], r.payload)

\* C17: the requests of start() come in the order of the kinds: snapshots,
\* main remote artifacts, secondary remote artifacts, main artifacts, secondary
\* artifacts, secrets; and when a request is sent, every item of the kinds
\* before its own has been submitted and every request before it was accepted.
C17_KindsInOrder ==
    /\ StartLists = <<"snapshots", "mainRemoteArtifacts", "secondaryRemoteArtifacts",
                      "mainArtifacts", "secondaryArtifacts", "secrets">>
    /\ \A k \in DOMAIN requests :
          /\ \A j \in 1..(k - 1) :
                /\ KindOf(requests[j]) <= KindOf(requests[k])
                /\ requests[j].status = HTTP_CREATED
          /\ \A loop \in 1..(KindOf(requests[k]) - 1) :
                SentBy(loop, k - 1) = builder[StartLists[loop]]

\* a secret and a snapshot were registered: the snapshot went first
C17_Witness ==
    /\ start.pc = "resolved"
    /\ builder.secrets = <<"secret-a">>
    /\ builder.snapshots = <<"a.yaml">>
    /\ Len(requests) = 2
    /\ KindOf(requests[1]) = 1
    /\ KindOf(requests[2]) = 6

(* The end of a contract test *)

\* C18: when every request gets a response and every wait ends, a testEndpoint
\* call that was made settles in the end, by a TestResult or by an error, even
\* if the job never leaves inProgress.
C18_EveryCallSettles ==
    \A c \in Calls :
        (calls[c].pc # "idle") ~> (calls[c].pc \in {"returned", "rejected"})

\* a call returned by its deadline, for a job still in progress
C18_Witness ==
    /\ calls["t1"].pc = "returned"
    /\ calls["t1"].testResult.inProgress
    /\ jobs[calls["t1"].testResultId].inProgress
    /\ clock >= calls["t1"].endDate
    /\ Len(calls["t1"].trace) >= 4

\* C19: once its submission was accepted a testEndpoint call has sent a status
\* fetch, whatever the timeout, so that a returned call has fetched at least
\* once; and the TestResult a call returns is the answer to its last fetch:
\* the state of the job when that answer was given.
C19_ReturnsLastFetch ==
    /\ [](\A c \in Calls :
            /\ calls[c].testResultId # 0 =>
                  /\ Len(calls[c].trace) >= 2
                  /\ calls[c].trace[2] =
                        [op |-> "GET", n |-> calls[c].testResultId,
                         late |-> calls[c].trace[2].late]
            /\ calls[c].pc = "returned" => calls[c].testResultId # 0)
    /\ [][\A c \in Calls :
            /\ (calls[c].pc = "fetching" /\ calls'[c].pc = "returned") =>
                  /\ calls'[c].trace = calls[c].trace
                  /\ calls'[c].testResult =
                        [id |-> calls[c].trace[Len(calls[c].trace)].n,
                         inProgress |->
                             jobs[calls[c].trace[Len(calls[c].trace)].n].inProgress]
            /\ calls[c].pc = "returned" => calls'[c].testResult = calls[c].testResult]_vars

\* a call whose deadline had passed when the id came returned the answer to
\* its one fetch, the job being in progress
C19_Witness ==
    /\ calls["t1"].pc = "returned"
    /\ calls["t1"].timeout + DEADLINE_MARGIN_MS < 0
    /\ Len(calls["t1"].trace) = 2
    /\ calls["t1"].trace[2].op = "GET"
    /\ calls["t1"].testResult.inProgress

(* Two contract tests at once *)

\* C20: of two testEndpoint calls in flight together, each gets a job id of its
\* own, polls that job only, has the deadline of its own id and timeout, and
\* returns the state of its own job as its last fetch found it; a step of one
\* call leaves the other call as it was.
C20_CallsDoNotInterfere ==
    /\ [](\A c \in Calls :
            /\ PollsOwnJob(c)
            /\ DeadlineOf(c)
            /\ calls[c].pc = "returned" =>
                  /\ calls[c].testResult.id = calls[c].testResultId
                  /\ jobs[calls[c].testResult.id].call = c
            /\ \A o \in Calls \ {c} :
                  calls[c].testResultId # 0 =>
                      calls[o].testResultId # calls[c].testResultId)
    /\ [][\A c \in Calls :
            /\ ConcurrentStep(c) => \A o \in Calls \ {c} : calls'[o] = calls[o]
            /\ (calls[c].pc = "fetching" /\ calls'[c].pc = "returned") =>
                  calls'[c].testResult.inProgress =
                      jobs[calls[c].testResultId].inProgress]_vars

\* both calls returned, each after a wait of its own: the first with its job
\* ended, the second by its deadline with its job in progress
C20_Witness ==
    /\ calls["t1"].pc = "returned"
    /\ calls["t2"].pc = "returned"
    /\ calls["t1"].testResultId = 2
    /\ calls["t2"].testResultId = 1
    /\ ~calls["t1"].testResult.inProgress
    /\ calls["t2"].testResult.inProgress
    /\ calls["t1"].endDate # calls["t2"].endDate
    /\ Len(calls["t1"].trace) >= 4
    /\ Len(calls["t2"].trace) >= 4

(* A failure in start() *)

\* the number of items start() goes through before the item at (loop, i)
RECURSIVE ItemsBefore(_, _)
ItemsBefore(loop, i) ==
    IF loop = 1 THEN i - 1
    ELSE Len(builder[StartLists[loop - 1]]) + ItemsBefore(loop - 1, 1) + (i - 1)

\* the call start() was awaiting has failed
StartItemFailed == op.by = "start" /\ op.pc = "rejected"

\* C21: when an import, a download or a secret of start() fails, start() is
\* rejected with the error of that call and hands back no started container;
\* the items after the failing one are not submitted, then or later; and the
\* container stays running, as start() left it.
C21_FailedStartLeavesContainerRunning ==
    /\ [](StartItemFailed =>
            /\ start.pc = "rejected"
            /\ op.error \in BadPathErrors \cup {"not created"}
            /\ op.arg = builder[StartLists[start.loop]][start.i]
            /\ Len(requests) = ItemsBefore(start.loop, start.i) + op.sent
            /\ op.sent = 1 => requests[Len(requests)].payload = op.arg
            /\ container = "running")
    /\ [][StartItemFailed =>
            /\ requests' = requests
            /\ start' = start
            /\ container' = container]_vars

\* the first of two items was refused by the server: the second was not sent
C21_Witness ==
    /\ StartItemFailed
    /\ container = "running"
    /\ Registered(builder) = 2
    /\ Len(requests) = 1
    /\ requests[1].status = 500

(* The start() and the stop() of the ensemble, member by member *)

\* the members of the ensemble as configured, in the order of start()
Configured == {"microcks"} \cup Enabled

\* the member whose start() has failed
FailedToStart(m) ==
    IF m = "microcks" THEN start.pc = "rejected" ELSE sidecars[m] = "failed"

\* one member starts at a time, in the order of start(); after a failure the
\* members before the failed one run and those after it were not started
StartsInTurn ==
    /\ Cardinality({m \in Configured : StateOf(m) = "starting"}) <= 1
    /\ \A s \in Sidecars :
          sidecars[s] # "created" =>
              /\ s \in Enabled
              /\ start.pc = "resolved"
              /\ \A m \in Configured :
                    Position(m) < Position(s) => m \in run.started
    /\ run.start = "rejected" =>
          /\ ~startedEnsemble.defined
          /\ \E f \in Configured :
                /\ FailedToStart(f)
                /\ \A m \in Configured :
                      /\ Position(m) < Position(f) => StateOf(m) = "running"
                      /\ Position(m) > Position(f) => StateOf(m) = "created"

\* C22: the ensemble's start() starts one member at a time: a sidecar only
\* after the main container's start(), imports and secrets included, has
\* resolved, the async minion only after the Postman container, if there is
\* one, has started; when a member fails start() is rejected, the members
\* after it are never started and the members before it stay running.
C22_MembersStartInTurn ==
    /\ []StartsInTurn
    /\ [][run.start = "rejected" =>
            /\ container' = container
            /\ sidecars' = sidecars
            /\ run' = run
            /\ startedEnsemble' = startedEnsemble]_vars

\* the Postman container failed to start: the main container runs on, the
\* async minion was not started
C22_Witness ==
    /\ run.start = "rejected"
    /\ Enabled = Sidecars
    /\ container = "running"
    /\ Len(requests) > 0
    /\ sidecars["postman"] = "failed"
    /\ sidecars["asyncMinion"] = "created"

\* C23: the ensemble's stop() leaves the network alone: from the call of
\* stop() until it has settled no network changes and the ensemble keeps its
\* network, so that the network is still started when stop() resolves; stop()
\* calls stop(options) on members the ensemble started only, each with the
\* options stop() was given.
C23_StopLeavesNetwork ==
    /\ [](\A m \in {"microcks"} \cup Sidecars :
            stopCalls[m].called =>
                /\ m \in run.started
                /\ StartedOf(m) # UNDEFINED
                /\ stopCalls[m].options = run.options)
    /\ [][run.stop \notin {"resolved", "rejected"} =>
            /\ networks' = networks
            /\ networks[ensemble.network] = "started"
            /\ ensemble'.network = ensemble.network]_vars

\* stop({ timeout: 10000 }) has resolved, having stopped the three members:
\* the network is started
C23_Witness ==
    /\ run.stop = "resolved"
    /\ networks[ensemble.network] = "started"
    /\ \A m \in {"microcks"} \cup Sidecars :
          /\ StateOf(m) = "stopped"
          /\ stopCalls[m] = [called |-> TRUE, options |-> "{ timeout: 10000 }"]

\* stop() is called on a member once every started member before it has
\* stopped; after a failure the members after the failed one were not called
\* and run
StopsInTurn ==
    /\ \A m \in run.started :
          stopCalls[m].called =>
              \A e \in run.started :
                  Position(e) < Position(m) => StateOf(e) = "stopped"
    /\ run.stop \in run.started =>
          /\ stopCalls[run.stop].called
          /\ \A m \in run.started :
                Position(m) > Position(run.stop) => ~stopCalls[m].called
    /\ run.stop = "rejected" =>
          \E f \in run.started :
              /\ stopCalls[f].called
              /\ \A m \in run.started :
                    Position(m) > Position(f) =>
                        ~stopCalls[m].called /\ StateOf(m) = "running"

\* C24: the ensemble's stop() stops the main container, then the Postman
\* container, then the async minion, each after the one before has stopped;
\* when the stop of a member fails stop() is rejected, and the members after
\* it are not stopped, then or later: they run on.
C24_MembersStopInTurn ==
    /\ []StopsInTurn
    /\ [][run.stop = "rejected" =>
            /\ container' = container
            /\ sidecars' = sidecars
            /\ stopCalls' = stopCalls
            /\ run' = run]_vars

\* the stop of the Postman container failed: the main container has stopped,
\* the async minion runs
C24_Witness ==
    /\ run.stop = "rejected"
    /\ run.started = {"microcks"} \cup Sidecars
    /\ container = "stopped"
    /\ stopCalls["postman"].called
    /\ ~stopCalls["asyncMinion"].called
    /\ sidecars["asyncMinion"] = "running"

(* The connections of the async minion *)

\* the value of an environment entry, "" when the entry is not set
EnvOf(c, key) == IF key \in DOMAIN c.env THEN c.env[key] ELSE ""

\* C25: ASYNC_PROTOCOLS of the async minion is, after any with*Connection
\* calls, the "," + protocol of each protocol configured, each once, in the
\* order they were first configured: a call for a protocol not yet there puts
\* it at the end, a call for one that is there leaves the value alone.
C25_ProtocolsOnceInOrder ==
    /\ [](LET minion == ensemble.asyncMinionContainer
          IN minion.defined =>
                /\ \A j, k \in DOMAIN minion.extraProtocols :
                      j # k => minion.extraProtocols[j] # minion.extraProtocols[k]
                /\ EnvOf(minion, "ASYNC_PROTOCOLS") = Joined(minion.extraProtocols))
    /\ [][\A call \in ConnectionCalls :
            MinionConnects(call[1], call[2]) =>
                LET before == ensemble.asyncMinionContainer.extraProtocols
                    after == ensemble'.asyncMinionContainer.extraProtocols
                IN after = IF \E k \in DOMAIN before : before[k] = "," \o call[1]
                           THEN before
                           ELSE before \o <<"," \o call[1]>>]_vars

\* three protocols were configured, SQS first
C25_Witness ==
    /\ ensemble.asyncMinionContainer.defined
    /\ EnvOf(ensemble.asyncMinionContainer, "ASYNC_PROTOCOLS") = ",SQS,KAFKA,SNS"

\* the environment entries a with*Connection method sets for its protocol
EntriesOf(protocol) ==
    CASE protocol = "KAFKA" -> {"KAFKA_BOOTSTRAP_SERVER"}
      [] protocol = "MQTT" -> {"MQTT_SERVER", "MQTT_USERNAME", "MQTT_PASSWORD"}
      [] protocol = "AMQP" -> {"AMQP_SERVER", "AMQP_USERNAME", "AMQP_PASSWORD"}
      [] protocol = "SQS" -> {"AWS_SQS_REGION", "AWS_ACCESS_KEY_ID",
                              "AWS_SECRET_ACCESS_KEY", "AWS_SQS_ENDPOINT"}
      [] protocol = "SNS" -> {"AWS_SNS_REGION", "AWS_ACCESS_KEY_ID",
                              "AWS_SECRET_ACCESS_KEY", "AWS_SNS_ENDPOINT"}

\* C26: a with*Connection call on the async minion leaves every environment
\* entry of the other protocols configured before as it was, and changes
\* ASYNC_PROTOCOLS and the entries of its own protocol only.
C26_OtherProtocolsUntouched ==
    [][\A call \in ConnectionCalls :
          MinionConnects(call[1], call[2]) =>
              LET before == ensemble.asyncMinionContainer
                  after == ensemble'.asyncMinionContainer
              IN /\ \A k \in DOMAIN before.extraProtocols :
                       \A other \in {"KAFKA", "MQTT", "AMQP", "SQS", "SNS"} \ {call[1]} :
                           before.extraProtocols[k] = "," \o other =>
                               \A key \in EntriesOf(other) :
                                   EnvOf(after, key) = EnvOf(before, key)
                 /\ \A key \in DOMAIN before.env :
                       key \notin EntriesOf(call[1]) \cup {"ASYNC_PROTOCOLS"} =>
                           EnvOf(after, key) = EnvOf(before, key)]_vars

\* C27: the async minion that start() of the ensemble launches holds, in its
\* environment, every broker connection a with*Connection method of the
\* ensemble has accepted, whatever builder calls came between the connection
\* and start(), a further withAsyncFeature included.
C27_AcceptedConnectionsLaunched ==
    launched["asyncMinion"].defined =>
        \A a \in attempts :
            ~a.threw => Recorded(launched["asyncMinion"], a.protocol, a.connection)

\* what a destination getter of the started async minion returns
DestinationOf(call, service, version, operationName) ==
    CASE call = "getWSMockEndpoint" ->
             GetWSMockEndpoint(service, version, operationName)
      [] call = "getKafkaMockTopic" ->
             GetKafkaMockTopic(service, version, operationName)
      [] call = "getMQTTMockTopic" ->
             GetMQTTMockTopic(service, version, operationName)
      [] call = "getAMQPMockDestination" ->
             GetAMQPMockDestination(service, version, operationName)
      [] call = "getAmazonSQSMockQueue" ->
             GetAmazonSQSMockQueue(service, version, operationName)
      [] call = "getAmazonSNSMockTopic" ->
             GetAmazonSNSMockTopic(service, version, operationName)

\* C28: each of the six destination getters of the started async minion,
\* getWSMockEndpoint included, returns for 'SUBSCRIBE x' and for 'PUBLISH x'
\* what it returns for x alone: the verb is dropped, the rest is kept whole.
C28_VerbPrefixOnlyDropped ==
    (/\ getter.call \in {"getWSMockEndpoint", "getKafkaMockTopic",
                         "getMQTTMockTopic", "getAMQPMockDestination",
                         "getAmazonSQSMockQueue", "getAmazonSNSMockTopic"}
     /\ WithoutVerbPrefix(getter.args[3]) # getter.args[3])
        => getter.value =
               Joined(DestinationOf(getter.call, getter.args[1], getter.args[2],
                                    WithoutVerbPrefix(getter.args[3])))

\* the log settings in the environment of a container
LogSettings(c) ==
    {key \in DOMAIN c.env : Len(key) >= 11 /\ SubSeq(key, 1, 11) = "QUARKUS_LOG"}

\* C29: on the ensemble that has withDebugLogLevel, the async minion that
\* start() launches has QUARKUS_LOG_CONSOLE_LEVEL = DEBUG when
\* withDebugLogLevel was called, before or after withAsyncFeature, and has no
\* log setting when it was not called.
C29_DebugReachesMinion ==
    launched["asyncMinion"].defined =>
        IF ensemble.asyncMinionEnvironment # NoEnvironment
        THEN /\ "QUARKUS_LOG_CONSOLE_LEVEL" \in DOMAIN launched["asyncMinion"].env
             /\ launched["asyncMinion"].env.QUARKUS_LOG_CONSOLE_LEVEL = "DEBUG"
        ELSE LogSettings(launched["asyncMinion"]) = {}

\* the minion was launched with the debug settings
C29_Witness ==
    /\ launched["asyncMinion"].defined
    /\ sidecars["asyncMinion"] = "running"
    /\ EnvOf(launched["asyncMinion"], "QUARKUS_LOG_CONSOLE_LEVEL") = "DEBUG"
    /\ EnvOf(launched["asyncMinion"], "KAFKA_BOOTSTRAP_SERVER") = "kafka:9092"

====
